---- MODULE Spec2Model ----
(***************************************************************************)
(* Content-addressed ingest pipeline (ingest-service/server.js).           *)
(*                                                                         *)
(* Shared state: the Redis key space used as dedup ledger, the Redis       *)
(* channel arealis:events, the directory /app/data/processed and the       *)
(* multer temp directory /tmp.  Every upload attempt runs the handler of   *)
(* POST /upload; the handler is cut at its await points and at the file    *)
(* system calls whose effect other processes can observe.                  *)
(***************************************************************************)
EXTENDS Integers, Sequences, FiniteSets, TLC

(* ----------------------------- bounds ---------------------------------- *)

\* number of upload attempts, numbered in order of arrival
MaxAttempts == 2

Attempts == 1..MaxAttempts

(* ------------------------ uploaded byte streams ------------------------ *)
\* A CSV byte stream is written as its lines, each line as its cells.

Header ==
  <<"transactionId", "amount", "fromAccount", "toAccount", "paymentMethod", "timestamp">>

\* two well-formed records
FileGood2 ==
  << Header,
     <<"T1", "100.50", "ACC1", "ACC2", "RTGS", "2024-01-01">>,
     <<"T2", "250", "ACC1", "ACC2", "UPI", "2024-01-01">> >>

\* row 2 has a blank paymentMethod
FileMissingPM ==
  << Header,
     <<"T1", "100.50", "ACC1", "ACC2", "RTGS", "2024-01-01">>,
     <<"T2", "250", "ACC1", "ACC2", "", "2024-01-01">> >>

\* row 1 has too few fields: Papa.parse reports TooFewFields
FileShortRow ==
  << Header, <<"T1", "100.50">> >>

\* one well-formed record
FileGood1 ==
  << Header, <<"T1", "100.50", "ACC1", "ACC2", "RTGS", "2024-01-01">> >>

\* the header line and no record
FileHeaderOnly == << Header >>

\* the column paymentMethod is absent from the header and from the record
FileNoColumn ==
  << <<"transactionId", "amount", "fromAccount", "toAccount", "timestamp">>,
     <<"T1", "100.50", "ACC1", "ACC2", "2024-01-01">> >>

Files ==
  {FileGood2, FileGood1, FileMissingPM, FileShortRow, FileHeaderOnly, FileNoColumn}

\* req.file.originalname: every attempt uploads under a name of its own
OriginalName(a) == <<"upload-", a, ".csv">>

\* a name without the .csv suffix
OtherName(a) == <<"upload-", a, ".pdf">>

\* the Content-Type values a file part may declare
MimeTypes == {"text/csv", "application/pdf"}

\* limits.fileSize: 10MB
fileSize == 10 * 1024 * 1024

\* String.prototype.endsWith on a name written as its pieces
endsWith(name, suffix) == name # <<>> /\ name[Len(name)] = suffix

\* fileFilter: accept text/csv parts and parts named *.csv
fileFilter(file) ==
  file.mimetype = "text/csv" \/ endsWith(file.originalname, ".csv")

\* the file parts attempt a may send; size is the number of bytes multer
\* has read of the part, 0 when it is refused on its headers
Parts(a, sizes) ==
  [mimetype : MimeTypes, originalname : {OriginalName(a), OtherName(a)},
   size : sizes]

\* variant: every error is answered 500
errorMiddlewareGeneric(err) ==
  [status |-> 500, error |-> "Something went wrong!"]

\* the error handling middleware: 400 for multer's LIMIT_FILE_SIZE, else 500
errorMiddleware(err) ==
  IF err = "LIMIT_FILE_SIZE"
    THEN [status |-> 400, error |-> "File too large. Maximum size is 10MB."]
    ELSE [status |-> 500, error |-> "Something went wrong!"]

(* ----------------------------- hashing --------------------------------- *)

\* crypto.createHash('sha256').update(fileBuffer).digest('hex'): the first
\* eight hex digits of the SHA-256 digest of each byte stream.
sha256hex(bytes) ==
  CASE bytes = FileGood2     -> "3373ff0c"
    [] bytes = FileMissingPM -> "530c5d36"
    [] bytes = FileShortRow  -> "0ff8ce6e"
    [] bytes = FileGood1     -> "c3bcf0ac"
    [] bytes = FileHeaderOnly -> "6821fef7"
    [] bytes = FileNoColumn  -> "3c7451c3"
    [] bytes = <<>>          -> "e3b0c442"

\* number of bytes of each byte stream (fs.Stats.size)
byteLength(bytes) ==
  CASE bytes = FileGood2     -> 135
    [] bytes = FileMissingPM -> 132
    [] bytes = FileShortRow  -> 77
    [] bytes = FileGood1     -> 103
    [] bytes = FileHeaderOnly -> 67
    [] bytes = FileNoColumn  -> 84
    [] bytes = <<>>          -> 0

\* calculateFileHash reads the temp file and digests its bytes; the
\* original name of the upload plays no part.
calculateFileHash(file) == sha256hex(file.bytes)

\* variant: one ledger key for every digest
LedgerKeyShared(fileHash) == <<"filehash:", "">>

\* the ledger key of a digest
LedgerKey(fileHash) == <<"filehash:", fileHash>>

(* ----------------------------- parsing --------------------------------- *)

\* String.prototype.trim on the strings that occur in the uploads
trim(s) ==
  CASE s = " " -> ""
    [] s = "  " -> ""
    [] OTHER -> s

\* parseFloat on the amount strings that occur, in hundredths: the longest
\* numeric prefix is converted, NaN when there is none
parseFloat(s) ==
  CASE s = "100.50" -> [nan |-> FALSE, val |-> 10050]
    [] s = "250"    -> [nan |-> FALSE, val |-> 25000]
    [] s = "0"      -> [nan |-> FALSE, val |-> 0]
    [] s = "-5"     -> [nan |-> FALSE, val |-> -500]
    [] s = "12abc"  -> [nan |-> FALSE, val |-> 1200]
    [] OTHER        -> [nan |-> TRUE, val |-> 0]

Min(a, b) == IF a < b THEN a ELSE b

\* lines kept by skipEmptyLines: true
NonEmptyLines(bytes) ==
  SelectSeq(bytes, LAMBDA line : line # <<>> /\ line # <<"">>)

\* one record of Papa.parse with header: true
PapaRecord(fields, line) ==
  LET n == Min(Len(fields), Len(line))
  IN  [f \in {fields[i] : i \in 1..n} |->
         line[CHOOSE i \in 1..n : fields[i] = f]]

\* Papa.parse(csvContent, {header: true, skipEmptyLines: true,
\*                         transformHeader: h => h.trim()})
PapaParse(bytes) ==
  LET lines  == NonEmptyLines(bytes)
      fields == IF lines = <<>> THEN <<>>
                ELSE [i \in 1..Len(lines[1]) |-> trim(lines[1][i])]
      rows   == IF lines = <<>> THEN <<>> ELSE Tail(lines)
      bad    == {i \in 1..Len(rows) : Len(rows[i]) # Len(fields)}
  IN  [data   |-> [i \in 1..Len(rows) |-> PapaRecord(fields, rows[i])],
       errors |-> IF lines = <<>> THEN {0} ELSE bad]

(* --------------------------- validateCSVSchema ------------------------- *)

requiredFields == Header

\* variant: one more rail is accepted
validPaymentMethodsWider == {"RTGS", "NEFT", "IMPS", "UPI", "CASH"}

validPaymentMethods == {"RTGS", "NEFT", "IMPS", "UPI"}

Report(valid, rule, row, field, fields) ==
  [valid |-> valid, rule |-> rule, row |-> row, field |-> field, fields |-> fields]

ValidReport == Report(TRUE, "none", 0, "", <<>>)

\* the validator has not been called
NoReport == Report(TRUE, "uncalled", 0, "", <<>>)

\* variant: a value of white space only is not blank
IsBlankNoTrim(row, field) ==
  \/ field \notin DOMAIN row
  \/ row[field] = ""

\* !row[field] || row[field].toString().trim() === ''
IsBlank(row, field) ==
  \/ field \notin DOMAIN row
  \/ row[field] = ""
  \/ trim(row[field]) = ""

\* the checks of one row, in the order of the loop body
RowReport(row, i) ==
  LET blanks == {k \in 1..Len(requiredFields) : IsBlank(row, requiredFields[k])}
      first  == CHOOSE k \in blanks : \A j \in blanks : k <= j
      amt    == parseFloat(row["amount"])
  IN  IF blanks # {}
        THEN Report(FALSE, "required", i, requiredFields[first], <<>>)
      ELSE IF amt.nan \/ amt.val <= 0
        THEN Report(FALSE, "amount", i, "amount", <<>>)
      ELSE IF row["paymentMethod"] \notin validPaymentMethods
        THEN Report(FALSE, "paymentMethod", i, "paymentMethod", <<>>)
      ELSE ValidReport

\* variant: only the first missing field is named
missingFieldsFirst(headers) ==
  LET all == SelectSeq(requiredFields, LAMBDA f : f \notin headers)
  IN  IF all = <<>> THEN <<>> ELSE <<all[1]>>

\* requiredFields.filter(field => !headers.includes(field))
missingFieldsOf(headers) ==
  SelectSeq(requiredFields, LAMBDA f : f \notin headers)

\* the row at which the loop over data returns: the first with a violation
returnRow(badRows) == CHOOSE i \in badRows : \A j \in badRows : i <= j

validateCSVSchema(data) ==
  IF Len(data) = 0
    THEN Report(FALSE, "empty", 0, "", <<>>)
  ELSE
    LET headers == DOMAIN data[1]
        missingFields == missingFieldsOf(headers)
        badRows == {i \in 1..Len(data) : ~RowReport(data[i], i).valid}
        firstBad == returnRow(badRows)
    IN  IF missingFields # <<>>
          THEN Report(FALSE, "missing", 0, "", missingFields)
        ELSE IF badRows # {}
          THEN RowReport(data[firstBad], firstBad)
        ELSE ValidReport

(* ------------------------ external services ---------------------------- *)

\* variant: the reply does not depend on the key being present
setNXReplyAlways(store, key) == 1

\* reply of Redis SETNX key value: 1 when the key was set, 0 when it exists
setNXReply(store, key) == IF key \in store THEN 0 ELSE 1

\* variant: the key is looked up but never stored
setNXStoreNever(store, key) == store

\* key space after SETNX
setNXStore(store, key) == store \cup {key}

\* variant: a rejected Redis call is taken as "not a duplicate"
checkDuplicateFailOpen(reachable, reply) ==
  IF ~reachable THEN "true"
  ELSE IF reply = 1 THEN "true" ELSE "false"

\* checkDuplicate: "true" (key was set), "false" (key exists), or "throw"
\* when the Redis call rejects
checkDuplicate(reachable, reply) ==
  IF ~reachable THEN "throw"
  ELSE IF reply = 1 THEN "true" ELSE "false"

\* variant: the duplicate response is sent without returning
DuplicateReturnMissing(isNotDuplicate) == FALSE

\* if (!isNotDuplicate) { ... return res.status(400).json(...) }
DuplicateReturn(isNotDuplicate) == isNotDuplicate = "false"

\* variant: the event carries the temp path instead of the final path
BatchCreatedEventTempPath(id, filePath) ==
  [type |-> "batch.created", batchId |-> id, filePath |-> <<"/tmp/", id, ".csv">>]

\* the event object built by publishBatchCreated
BatchCreatedEvent(id, filePath) ==
  [type |-> "batch.created", batchId |-> id, filePath |-> filePath]

\* redisClient.publish('arealis:events', JSON.stringify(event))
publish(channel, event) == Append(channel, event)

\* variant: a rejected publish is rethrown to the handler
publishBatchCreatedRethrow(delivered) == IF delivered THEN "returned" ELSE "throw"

\* publishBatchCreated catches a rejected publish and logs it: it returns
\* normally in both cases
publishBatchCreated(delivered) == "returned"

\* variant: the generator returns the same id every time
uuidv4Fixed(n) == 1

\* uuidv4(): an id that no earlier call has returned; n ids were issued
uuidv4(n) == n + 1

\* const finalFilePath = `/app/data/processed/${batchId}.csv`
finalFilePath(id) == <<"/app/data/processed/", id, ".csv">>

\* variant: the claim is released when validation fails
ledgerOnInvalidRelease(store, key) == store \ {key}

\* the validation-failure returns leave the ledger as it is
ledgerOnInvalid(store, key) == store

\* variant: the claim is released when the handler fails
ledgerOnErrorRelease(store, key) == store \ {key}

\* the catch and finally blocks leave the ledger as it is
ledgerOnError(store, key) == store

(* ------------------------- strings and paths --------------------------- *)
\* A string of the evidence service is the sequence of its characters.

\* String.prototype.startsWith
startsWith(s, prefix) ==
  /\ Len(prefix) <= Len(s)
  /\ SubSeq(s, 1, Len(prefix)) = prefix

\* String.prototype.includes
includes(s, sub) ==
  \E i \in 0..(Len(s) - Len(sub)) : SubSeq(s, i + 1, i + Len(sub)) = sub

\* toLowerCase of one character, for the letters that occur
lowerChar(c) ==
  CASE c = "A" -> "a"
    [] c = "B" -> "b"
    [] c = "C" -> "c"
    [] c = "S" -> "s"
    [] c = "V" -> "v"
    [] OTHER -> c

\* String.prototype.toLowerCase
toLowerCase(s) == [i \in 1..Len(s) |-> lowerChar(s[i])]

RECURSIVE splitSlash(_)
\* s.split('/')
splitSlash(s) ==
  IF s = <<>> THEN << <<>> >>
  ELSE LET rest == splitSlash(Tail(s))
       IN  IF Head(s) = "/"
             THEN << <<>> >> \o rest
             ELSE << <<Head(s)>> \o Head(rest) >> \o Tail(rest)

RECURSIVE resolveSegments(_, _)
\* path.normalize on the segments of an absolute path: empty and "."
\* segments are dropped, ".." removes the segment before it
resolveSegments(segs, stack) ==
  IF segs = <<>> THEN stack
  ELSE LET h == Head(segs)
       IN  IF h = <<>> \/ h = <<".">>
             THEN resolveSegments(Tail(segs), stack)
           ELSE IF h = <<".", ".">>
             THEN resolveSegments(Tail(segs),
                                  IF stack = <<>> THEN <<>>
                                  ELSE SubSeq(stack, 1, Len(stack) - 1))
           ELSE resolveSegments(Tail(segs), Append(stack, h))

RECURSIVE joinSlash(_)
\* "/" + segs.join('/')
joinSlash(segs) ==
  IF segs = <<>> THEN <<>>
  ELSE <<"/">> \o Head(segs) \o joinSlash(Tail(segs))

\* path.join(dir, name) for an absolute dir: normalize(dir + '/' + name);
\* a trailing slash of the name is kept
pathJoin(dir, name) ==
  LET joined == dir \o <<"/">> \o name
      segs   == resolveSegments(splitSlash(joined), <<>>)
      body   == IF segs = <<>> THEN <<"/">> ELSE joinSlash(segs)
  IN  IF segs # <<>> /\ name # <<>> /\ name[Len(name)] = "/"
        THEN body \o <<"/">>
        ELSE body

\* path.basename
basename(p) ==
  LET segs == resolveSegments(splitSlash(p), <<>>)
  IN  IF segs = <<>> THEN <<>> ELSE segs[Len(segs)]

\* path.extname: from the last "." of the basename, unless it starts it
extname(p) ==
  LET b    == basename(p)
      dots == {i \in 2..Len(b) : b[i] = "."}
      last == CHOOSE i \in dots : \A j \in dots : j <= i
  IN  IF dots = {} THEN <<>> ELSE SubSeq(b, last, Len(b))

(* --------------------------- evidence service -------------------------- *)
\* A file system is a function from absolute paths to the bytes of the
\* regular file at that path.

EVIDENCE_DIR == <<"/", "a", "p", "p", "/", "d", "a", "t", "a", "/", "e", "v", "i", "d", "e", "n", "c", "e">>

\* fs.existsSync
existsSync(fs, p) == p \in DOMAIN fs

\* fs.readdirSync(dir): the names of the files directly inside dir
readdirSync(fs, dir) ==
  {SubSeq(p, Len(dir) + 2, Len(p)) :
     p \in {q \in DOMAIN fs : /\ startsWith(q, dir \o <<"/">>)
                              /\ Len(q) > Len(dir) + 1
                              /\ \A i \in (Len(dir) + 2)..Len(q) : q[i] # "/"}}

\* variant: the digest is computed once, from the bytes of the first file
calculateFileHashStale(fs, filePath) ==
  IF filePath \in DOMAIN fs THEN sha256hex(FileGood1) ELSE "null"

\* calculateFileHash of the evidence service: the digest of the bytes read
\* now, or null when the read throws
calculateFileHashNow(fs, filePath) ==
  IF filePath \in DOMAIN fs THEN sha256hex(fs[filePath]) ELSE "null"

\* getMimeType: by the lower-cased extension
getMimeType(filePath) ==
  LET ext == toLowerCase(extname(filePath))
  IN  CASE ext = <<".", "c", "s", "v">>  -> "text/csv"
        [] ext = <<".", "j", "s", "o", "n">> -> "application/json"
        [] ext = <<".", "t", "x", "t">>  -> "text/plain"
        [] ext = <<".", "p", "d", "f">>  -> "application/pdf"
        [] ext = <<".", "x", "l", "s", "x">> ->
             "application/vnd.openxmlformats-officedocument.spreadsheetml.sheet"
        [] ext = <<".", "x", "m", "l">>  -> "application/xml"
        [] OTHER -> "application/octet-stream"

\* getFileMetadata: null when statSync throws
getFileMetadata(fs, filePath) ==
  IF filePath \notin DOMAIN fs
    THEN [null |-> TRUE, filename |-> <<>>, size |-> 0, hash |-> "null", mimeType |-> ""]
    ELSE [null |-> FALSE,
          filename |-> basename(filePath),
          size |-> byteLength(fs[filePath]),
          hash |-> calculateFileHashNow(fs, filePath),
          mimeType |-> getMimeType(filePath)]

\* a response of the evidence service, before any field is set
NoReply ==
  [status |-> 0, handler |-> "none", error |-> "", filename |-> <<>>,
   body |-> <<>>, hash |-> "", size |-> 0, mimeType |-> "",
   files |-> {}, count |-> 0, totalFiles |-> 0, totalSize |-> 0,
   pattern |-> <<>>]

ErrorReply(handler, status, error, filename) ==
  [NoReply EXCEPT !.handler = handler, !.status = status, !.error = error,
                  !.filename = filename]

\* if (!filePath.startsWith(EVIDENCE_DIR)) return 400
SecurityCheck(filePath) == startsWith(filePath, EVIDENCE_DIR)

\* variant: a missing file is served as an empty one
FileMissingNever(fs, filePath) == FALSE

\* if (!fs.existsSync(filePath)) return 404
FileMissing(fs, filePath) == ~existsSync(fs, filePath)

\* app.get('/:filename'): headers from the metadata, then the bytes
FileHandler(fs, filename) ==
  LET filePath == pathJoin(EVIDENCE_DIR, filename)
      metadata == getFileMetadata(fs, filePath)
  IN  IF ~SecurityCheck(filePath)
        THEN ErrorReply("file", 400, "Invalid file path", filename)
      ELSE IF FileMissing(fs, filePath)
        THEN ErrorReply("file", 404, "File not found", filename)
      ELSE IF metadata.null
        THEN ErrorReply("file", 500, "Failed to serve file", filename)
      ELSE [NoReply EXCEPT !.handler = "file", !.status = 200,
                           !.filename = filename,
                           !.body = fs[filePath],
                           !.hash = metadata.hash,
                           !.size = metadata.size,
                           !.mimeType = metadata.mimeType]

\* app.get('/:filename/metadata')
MetadataHandler(fs, filename) ==
  LET filePath == pathJoin(EVIDENCE_DIR, filename)
      metadata == getFileMetadata(fs, filePath)
  IN  IF ~SecurityCheck(filePath)
        THEN ErrorReply("metadata", 400, "Invalid file path", filename)
      ELSE IF FileMissing(fs, filePath)
        THEN ErrorReply("metadata", 404, "File not found", filename)
      ELSE IF metadata.null
        THEN [NoReply EXCEPT !.handler = "metadata", !.status = 200,
                             !.filename = filename]
      ELSE [NoReply EXCEPT !.handler = "metadata", !.status = 200,
                           !.filename = filename,
                           !.hash = metadata.hash,
                           !.size = metadata.size,
                           !.mimeType = metadata.mimeType]

\* one entry of the lists of /files and /search
FileEntry(fs, filename) ==
  LET metadata == getFileMetadata(fs, pathJoin(EVIDENCE_DIR, filename))
  IN  [filename |-> filename, hash |-> metadata.hash, size |-> metadata.size,
       mimeType |-> metadata.mimeType]

\* app.get('/files')
FilesHandler(fs) ==
  LET files == readdirSync(fs, EVIDENCE_DIR)
  IN  [NoReply EXCEPT !.handler = "files", !.status = 200,
                      !.files = {FileEntry(fs, f) : f \in files},
                      !.count = Cardinality(files)]

\* filename.toLowerCase().includes(pattern.toLowerCase())
searchMatches(filename, pattern) ==
  includes(toLowerCase(filename), toLowerCase(pattern))

\* app.get('/search/:pattern')
SearchHandler(fs, pattern) ==
  LET files == readdirSync(fs, EVIDENCE_DIR)
      matchingFiles == {f \in files : searchMatches(f, pattern)}
  IN  [NoReply EXCEPT !.handler = "search", !.status = 200,
                      !.pattern = pattern,
                      !.files = {FileEntry(fs, f) : f \in matchingFiles},
                      !.count = Cardinality(matchingFiles)]

RECURSIVE sumSizes(_, _)
\* totalSize += stats.size over the listed names
sumSizes(fs, names) ==
  IF names = {} THEN 0
  ELSE LET f == CHOOSE g \in names : TRUE
       IN  byteLength(fs[pathJoin(EVIDENCE_DIR, f)]) + sumSizes(fs, names \ {f})

\* app.get('/stats')
StatsHandler(fs) ==
  LET files == readdirSync(fs, EVIDENCE_DIR)
  IN  [NoReply EXCEPT !.handler = "stats", !.status = 200,
                      !.totalFiles = Cardinality(files),
                      !.totalSize = sumSizes(fs, files)]

\* variant: the parameter routes are registered before the fixed ones
RouteOrderParamFirst ==
  <<"file", "metadata", "health", "metrics", "files", "search", "stats">>

\* the routes in the order of their registration
RouteOrder ==
  <<"health", "metrics", "files", "file", "metadata", "search", "stats">>

\* the segments of a request path without the optional trailing slash
pathSegments(segs) ==
  IF segs # <<>> /\ segs[Len(segs)] = <<>>
    THEN SubSeq(segs, 1, Len(segs) - 1)
    ELSE segs

\* does the route pattern match the request path; a parameter matches one
\* non-empty segment
routeMatches(route, segs) ==
  LET s == pathSegments(segs)
  IN  CASE route = "health"   -> s = << <<"h", "e", "a", "l", "t", "h">> >>
        [] route = "metrics"  -> s = << <<"m", "e", "t", "r", "i", "c", "s">> >>
        [] route = "files"    -> s = << <<"f", "i", "l", "e", "s">> >>
        [] route = "file"     -> Len(s) = 1 /\ s[1] # <<>>
        [] route = "metadata" -> Len(s) = 2 /\ s[1] # <<>> /\ s[2] = <<"m", "e", "t", "a", "d", "a", "t", "a">>
        [] route = "search"   -> Len(s) = 2 /\ s[1] = <<"s", "e", "a", "r", "c", "h">> /\ s[2] # <<>>
        [] route = "stats"    -> s = << <<"s", "t", "a", "t", "s">> >>

\* the first registered route that matches, or the 404 handler
dispatch(order, segs) ==
  LET hits == {i \in 1..Len(order) : routeMatches(order[i], segs)}
  IN  IF hits = {} THEN "notfound"
      ELSE order[CHOOSE i \in hits : \A j \in hits : i <= j]

\* the response of the evidence service to GET <segs>
handle(fs, segs) ==
  LET route == dispatch(RouteOrder, segs)
      s     == pathSegments(segs)
  IN  CASE route = "health"   -> [NoReply EXCEPT !.handler = "health", !.status = 200]
        [] route = "metrics"  -> [NoReply EXCEPT !.handler = "metrics", !.status = 200]
        [] route = "files"    -> FilesHandler(fs)
        [] route = "file"     -> FileHandler(fs, s[1])
        [] route = "metadata" -> MetadataHandler(fs, s[1])
        [] route = "search"   -> SearchHandler(fs, s[2])
        [] route = "stats"    -> StatsHandler(fs)
        [] route = "notfound" -> ErrorReply("notfound", 404, "Endpoint not found", <<>>)

(* ------------------------ rail statement simulator -------------------- *)

\* a value the request body does not carry
Undefined == "undefined"

\* FAILURE_CODES: the predefined codes and their reasons
FAILURE_CODES ==
  [INSUFFICIENT_FUNDS |-> "Insufficient funds in account",
   INVALID_ACCOUNT |-> "Invalid account number",
   NETWORK_ERROR |-> "Network connectivity issue",
   BANK_MAINTENANCE |-> "Bank system under maintenance",
   DAILY_LIMIT_EXCEEDED |-> "Daily transaction limit exceeded",
   INVALID_UPI_ID |-> "Invalid UPI ID",
   BENEFICIARY_NOT_FOUND |-> "Beneficiary account not found",
   TECHNICAL_ERROR |-> "Technical error in processing"]

\* the endpoints /simulate/<rail> and the paymentMethod each one sets
Rails == {"RTGS", "NEFT", "IMPS", "UPI"}

\* the object has the property
Has(object, property) == property \in DOMAIN object

\* !transaction.amount: the amount is missing or 0 (amounts are in paise)
NoAmount(transaction) == ~Has(transaction, "amount") \/ transaction.amount = 0

\* !transaction[property] for a string property: missing or empty
NoText(transaction, property) ==
  ~Has(transaction, property) \/ transaction[property] = ""

\* Math.max
Max(x, y) == IF x >= y THEN x ELSE y

\* Math.round of the fraction n / d, d > 0: the nearest integer, halves up
MathRound(n, d) == (2 * n + d) \div (2 * d)

\* feeStructure: the rail's minimum in paise and its rate in 1/10000
feeStructure ==
  [RTGS |-> [min |-> 2500, rate |-> 1],
   NEFT |-> [min |-> 250, rate |-> 1],
   IMPS |-> [min |-> 500, rate |-> 5]]

\* variant: the fee is the percentage alone, without the rail minimum
calculateProcessingFeeNoMin(amount, paymentMethod) ==
  IF paymentMethod = "UPI" THEN 0
  ELSE MathRound(amount * feeStructure[paymentMethod].rate, 10000)

\* calculateProcessingFee, in paise:
\* Math.round(Math.max(min, amount * rate) * 100) / 100, and 0 for UPI
calculateProcessingFee(amount, paymentMethod) ==
  IF paymentMethod = "UPI" THEN 0
  ELSE MathRound(Max(feeStructure[paymentMethod].min * 10000,
                     amount * feeStructure[paymentMethod].rate), 10000)

\* no statement item
NoItem ==
  [status |-> "", amount |-> 0, fromAccount |-> "", toAccount |-> "",
   paymentMethod |-> "", failureCode |-> "", failureReason |-> "",
   processingFee |-> 0, netAmount |-> 0]

\* generateStatementItem(transaction, outcome, failureCode)
generateStatementItem(transaction, outcome, failureCode) ==
  IF outcome = "failure"
    THEN [NoItem EXCEPT
            !.status = "FAILED",
            !.amount = transaction.amount,
            !.fromAccount = transaction.fromAccount,
            !.toAccount = transaction.toAccount,
            !.paymentMethod = transaction.paymentMethod,
            !.failureCode = (IF failureCode \in {Undefined, ""}
                               THEN "TECHNICAL_ERROR" ELSE failureCode),
            !.failureReason = (IF failureCode \in DOMAIN FAILURE_CODES
                                 THEN FAILURE_CODES[failureCode]
                                 ELSE "Transaction failed"),
            !.processingFee = 0,
            !.netAmount = 0]
    ELSE LET processingFee ==
               calculateProcessingFee(transaction.amount, transaction.paymentMethod)
         IN  [NoItem EXCEPT
                !.status = "SUCCESS",
                !.amount = transaction.amount,
                !.fromAccount = transaction.fromAccount,
                !.toAccount = transaction.toAccount,
                !.paymentMethod = transaction.paymentMethod,
                !.processingFee = processingFee,
                !.netAmount = transaction.amount - processingFee]

\* no request was simulated yet
NoSimulation ==
  [rail |-> "", given |-> FALSE, transaction |-> <<>>, outcome |-> Undefined,
   failureCode |-> Undefined]

\* no response of the simulator yet
NoStatement == [status |-> 0, error |-> <<>>, item |-> NoItem]

\* if (!transaction || !transaction.amount || ...) of the four endpoints
Incomplete(rail, body) ==
  \/ ~body.given
  \/ NoAmount(body.transaction)
  \/ IF rail = "UPI"
       THEN NoText(body.transaction, "upiId")
       ELSE \/ NoText(body.transaction, "fromAccount")
            \/ NoText(body.transaction, "toAccount")

\* variant: the 400 response names the missing fields only
InvalidTransactionDataFieldsOnly(rail) ==
  IF rail = "UPI"
    THEN <<"R", "e", "q", "u", "i", "r", "e", "d", " ", "f", "i", "e", "l", "d", "s", ":", " ", "a", "m", "o", "u", "n", "t", ",", " ", "u", "p", "i", "I", "d">>
    ELSE <<"R", "e", "q", "u", "i", "r", "e", "d", " ", "f", "i", "e", "l", "d", "s", ":", " ", "a", "m", "o", "u", "n", "t", ",", " ", "f", "r", "o", "m", "A", "c", "c", "o", "u", "n", "t", ",", " ", "t", "o", "A", "c", "c", "o", "u", "n", "t">>

\* the error text of the 400 response of an endpoint
InvalidTransactionData(rail) ==
  IF rail = "UPI"
    THEN <<"I", "n", "v", "a", "l", "i", "d", " ", "t", "r", "a", "n", "s", "a", "c", "t", "i", "o", "n", " ", "d", "a", "t", "a", ".", " ", "R", "e", "q", "u", "i", "r", "e", "d", " ", "f", "i", "e", "l", "d", "s", ":", " ", "a", "m", "o", "u", "n", "t", ",", " ", "u", "p", "i", "I", "d">>
    ELSE <<"I", "n", "v", "a", "l", "i", "d", " ", "t", "r", "a", "n", "s", "a", "c", "t", "i", "o", "n", " ", "d", "a", "t", "a", ".", " ", "R", "e", "q", "u", "i", "r", "e", "d", " ", "f", "i", "e", "l", "d", "s", ":", " ", "a", "m", "o", "u", "n", "t", ",", " ", "f", "r", "o", "m", "A", "c", "c", "o", "u", "n", "t", ",", " ", "t", "o", "A", "c", "c", "o", "u", "n", "t">>

\* a property of an object is set, the others are kept
Assign(object, property, value) ==
  [p \in DOMAIN object \cup {property} |->
     IF p = property THEN value ELSE object[p]]

\* variant: every endpoint sets the paymentMethod of the first one
SetRailFirst(rail, transaction) ==
  LET t == Assign(transaction, "paymentMethod", "RTGS")
  IN  IF rail = "UPI"
        THEN Assign(Assign(t, "fromAccount", t.upiId), "toAccount", t.upiId)
        ELSE t

\* transaction.paymentMethod = <rail>; the UPI endpoint also sets both
\* accounts to the upiId
SetRail(rail, transaction) ==
  LET t == Assign(transaction, "paymentMethod", rail)
  IN  IF rail = "UPI"
        THEN Assign(Assign(t, "fromAccount", t.upiId), "toAccount", t.upiId)
        ELSE t

\* app.post('/simulate/<rail>')
simulate(rail, body) ==
  IF Incomplete(rail, body)
    THEN [NoStatement EXCEPT !.status = 400, !.error = InvalidTransactionData(rail)]
    ELSE [NoStatement EXCEPT
            !.status = 200,
            !.item = generateStatementItem(SetRail(rail, body.transaction),
                                           body.outcome, body.failureCode)]

(* ------------------------------- state --------------------------------- *)

VARIABLES
  pc,         \* position of each attempt in the handler
  upload,     \* req.file of each attempt: original name and bytes
  part,       \* the file part multer refused in each attempt's request, if any
  fileHash,   \* const fileHash of each attempt
  isNotDuplicate, \* const isNotDuplicate of each attempt, or "throw"
  batchId,    \* const batchId of each attempt, 0 before uuidv4()
  resp,       \* the HTTP response of each attempt
  fault,      \* the infrastructure failure an attempt has met
  prior,      \* what earlier attempts on the same bytes had done on arrival
  tmp,        \* attempts whose multer temp file exists under /tmp
  ledger,     \* Redis keys filehash:<hash>
  processed,  \* files of /app/data/processed: path -> bytes, complete
  events,     \* messages published on arealis:events, in order
  issued,     \* number of uuids generated so far
  statusReply, \* the last response of GET /batch/:batchId/status
  disk,       \* files outside /app/data/processed: path -> bytes
  request,    \* the path of the last evidence request, as decoded segments
  reply,      \* the last response of the evidence service
  observed,   \* the file system the last evidence response was computed on
  lastMeta,   \* the last successful metadata response and the bytes it saw
  data,       \* the record set validateCSVSchema was last called with
  report,     \* what that call returned
  simulated,  \* the last request of the simulator: endpoint and body
  statement   \* the response of the simulator to that request

vars ==
  <<pc, upload, part, fileHash, isNotDuplicate, batchId, resp, fault, prior, tmp,
    ledger, processed, events, issued, statusReply, disk, request, reply,
    observed, lastMeta, data, report, simulated, statement>>

\* the argument and the result of the last direct call of the validator
validatorVars == <<data, report>>

\* the last request of the simulator and its response
simulatorVars == <<simulated, statement>>

\* the state of the status endpoint and of the evidence service
readerVars == <<statusReply, disk, request, reply, observed, lastMeta>>

\* the state of the upload handler and of what it writes
ingestVars ==
  <<pc, upload, part, fileHash, isNotDuplicate, batchId, resp, fault, prior, tmp,
    ledger, processed, events, issued>>

NoFile == [originalname |-> <<>>, bytes |-> <<>>]

\* no file part was refused
NoPart == [mimetype |-> "", originalname |-> <<>>, size |-> 0]

NoResp ==
  [status |-> 0, error |-> "", batchId |-> 0, filePath |-> <<>>,
   recordCount |-> 0, hash |-> "", details |-> ValidReport]

Response(status, error) == [NoResp EXCEPT !.status = status, !.error = error]

\* outcome of an attempt in the terms of the ingest state machine
Outcome(r) ==
  IF r.error \in {"File too large. Maximum size is 10MB.", "Something went wrong!"}
    THEN "REJECTED"
  ELSE
  CASE r.status = 0 -> "PENDING"
    [] r.status = 200 -> "STORED"
    [] r.status = 500 -> "ERROR"
    [] r.status = 400 /\ r.error = "Duplicate file detected" -> "DUPLICATE"
    [] r.status = 400 /\ r.error = "No file uploaded" -> "NOFILE"
    [] OTHER -> "INVALID"

\* a response of the status endpoint, before any field is set
NoStatus == [status |-> 0, error |-> "", batchId |-> 0, filePath |-> <<>>, size |-> 0]

\* no metadata response yet
NoMeta == [filename |-> <<>>, hash |-> "", bytes |-> <<>>]

\* the files on the volume when the services start: two evidence files, one
\* file in a sibling directory and one in the parent directory
InitialDisk ==
  (<<"/", "a", "p", "p", "/", "d", "a", "t", "a", "/", "e", "v", "i", "d", "e", "n", "c", "e", "/", "a", ".", "c", "s", "v">> :> FileGood1) @@
  (<<"/", "a", "p", "p", "/", "d", "a", "t", "a", "/", "e", "v", "i", "d", "e", "n", "c", "e", "/", "B", ".", "C", "S", "V">> :> FileGood2) @@
  (<<"/", "a", "p", "p", "/", "d", "a", "t", "a", "/", "e", "v", "i", "d", "e", "n", "c", "e", "2", "/", "s">> :> FileMissingPM) @@
  (<<"/", "a", "p", "p", "/", "d", "a", "t", "a", "/", "s">> :> FileShortRow)

\* variant: a failed validation is answered as a parsing failure
ValidationFailedAsParsing(validation) == Response(400, "CSV parsing failed")

\* res.status(400).json({error: 'File validation failed', details: validation.error})
ValidationFailed(validation) ==
  [Response(400, "File validation failed") EXCEPT !.details = validation]

Init ==
  /\ pc = [a \in Attempts |-> "idle"]
  /\ upload = [a \in Attempts |-> NoFile]
  /\ part = [a \in Attempts |-> NoPart]
  /\ fileHash = [a \in Attempts |-> ""]
  /\ isNotDuplicate = [a \in Attempts |-> "none"]
  /\ batchId = [a \in Attempts |-> 0]
  /\ resp = [a \in Attempts |-> NoResp]
  /\ fault = [a \in Attempts |-> "none"]
  /\ prior = [a \in Attempts |-> {}]
  /\ tmp = {}
  /\ ledger = {}
  /\ processed = <<>>
  /\ events = <<>>
  /\ issued = 0
  /\ statusReply = NoStatus
  /\ disk = InitialDisk
  /\ request = <<>>
  /\ reply = NoReply
  /\ observed = <<>>
  /\ lastMeta = NoMeta
  /\ data = <<>>
  /\ report = NoReport
  /\ simulated = NoSimulation
  /\ statement = NoStatement

\* attempts arrive in the order of their numbers
Arrives(a) == pc[a] = "idle" /\ \A b \in 1..(a - 1) : pc[b] # "idle"

\* what the attempts on the same bytes have done so far
History(bytes) ==
  {IF pc[b] = "done"
     THEN (IF Outcome(resp[b]) = "ERROR" THEN fault[b] ELSE Outcome(resp[b]))
     ELSE "INFLIGHT" :
   b \in {c \in Attempts : pc[c] # "idle" /\ upload[c].bytes = bytes}}

\* multer stores the file part under /tmp and the handler starts
Upload(a) ==
  /\ Arrives(a)
  /\ \E bytes \in Files : \E file \in Parts(a, {byteLength(bytes)}) :
       /\ file.originalname = OriginalName(a)
       /\ fileFilter(file)
       /\ file.size <= fileSize
       /\ upload' = [upload EXCEPT ![a] = [originalname |-> file.originalname, bytes |-> bytes]]
       /\ prior' = [prior EXCEPT ![a] = History(bytes)]
  /\ pc' = [pc EXCEPT ![a] = "received"]
  /\ tmp' = tmp \cup {a}
  /\ UNCHANGED part
  /\ UNCHANGED <<fileHash, isNotDuplicate, batchId, resp, fault, ledger, processed, events, issued>>
  /\ UNCHANGED readerVars
  /\ UNCHANGED <<validatorVars, simulatorVars>>

\* res.status(..).json(..): an attempt sends at most one response
Send(a, r) ==
  resp' = [resp EXCEPT ![a] = IF resp[a].status = 0 THEN r ELSE resp[a]]

\* variant: the handler ends without unlinking its temp file
FinallyKeeps(a) ==
  /\ pc' = [pc EXCEPT ![a] = "done"]
  /\ tmp' = tmp

\* finally: unlink the temp file; the handler is over
Finally(a) ==
  /\ pc' = [pc EXCEPT ![a] = "done"]
  /\ tmp' = tmp \ {a}

\* catch: answer 500, then finally
Catch(a, cause) ==
  /\ Send(a, Response(500, "Internal server error"))
  /\ fault' = [fault EXCEPT ![a] = cause]
  /\ ledger' = ledgerOnError(ledger, LedgerKey(fileHash[a]))
  /\ Finally(a)

\* multer refuses the file part: the fileFilter calls back with an error
\* before any byte is read, or the stream passes limits.fileSize and the
\* temp file is removed; the error goes to the error handling middleware
\* and the route handler does not run
UploadRejected(a) ==
  /\ Arrives(a)
  /\ \E file \in Parts(a, {0, fileSize + 1}) :
       LET err == IF ~fileFilter(file) THEN "Only CSV files are allowed"
                  ELSE "LIMIT_FILE_SIZE"
           answer == errorMiddleware(err)
       IN  /\ \/ ~fileFilter(file) /\ file.size = 0
              \/ fileFilter(file) /\ file.size > fileSize
           /\ part' = [part EXCEPT ![a] = file]
           /\ Send(a, Response(answer.status, answer.error))
  /\ pc' = [pc EXCEPT ![a] = "done"]
  /\ UNCHANGED <<upload, fileHash, isNotDuplicate, batchId, fault, prior, tmp,
                 ledger, processed, events, issued>>
  /\ UNCHANGED readerVars
  /\ UNCHANGED <<validatorVars, simulatorVars>>

\* the request carries no file part: if (!req.file) return 400
UploadNoFile(a) ==
  /\ Arrives(a)
  /\ Send(a, Response(400, "No file uploaded"))
  /\ Finally(a)
  /\ UNCHANGED <<upload, fileHash, isNotDuplicate, batchId, fault, prior,
                 ledger, processed, events, issued>>
  /\ UNCHANGED readerVars
  /\ UNCHANGED <<validatorVars, simulatorVars>>
  /\ UNCHANGED part

\* const fileHash = calculateFileHash(tempFilePath)
Hash(a) ==
  /\ pc[a] = "received"
  /\ \E readable \in BOOLEAN :
       IF readable
         THEN /\ fileHash' = [fileHash EXCEPT ![a] = calculateFileHash(upload[a])]
              /\ pc' = [pc EXCEPT ![a] = "hashed"]
              /\ UNCHANGED <<resp, fault, tmp, ledger>>
         ELSE /\ Catch(a, "hash")
              /\ UNCHANGED fileHash
  /\ UNCHANGED <<upload, isNotDuplicate, batchId, prior, processed, events, issued>>
  /\ UNCHANGED readerVars
  /\ UNCHANGED <<validatorVars, simulatorVars>>
  /\ UNCHANGED part

\* const isNotDuplicate = await checkDuplicate(fileHash), and the
\* duplicate return
Claim(a) ==
  /\ pc[a] = "hashed"
  /\ \E reachable \in BOOLEAN :
       LET key   == LedgerKey(fileHash[a])
           result == checkDuplicate(reachable, setNXReply(ledger, key))
           store == IF reachable THEN setNXStore(ledger, key) ELSE ledger
           dup   == [Response(400, "Duplicate file detected")
                       EXCEPT !.hash = fileHash[a]]
       IN  /\ isNotDuplicate' = [isNotDuplicate EXCEPT ![a] = result]
           /\ IF result = "throw"
                THEN Catch(a, "ledger")
              ELSE IF DuplicateReturn(result)
                THEN /\ ledger' = store
                     /\ Send(a, dup)
                     /\ Finally(a)
                     /\ UNCHANGED fault
              ELSE /\ ledger' = store
                   /\ pc' = [pc EXCEPT ![a] = "claimed"]
                   /\ IF result = "false" THEN Send(a, dup) ELSE UNCHANGED resp
                   /\ fault' = [fault EXCEPT ![a] = IF reachable THEN @ ELSE "ledger"]
                   /\ UNCHANGED tmp
  /\ UNCHANGED <<upload, fileHash, batchId, prior, processed, events, issued>>
  /\ UNCHANGED readerVars
  /\ UNCHANGED <<validatorVars, simulatorVars>>
  /\ UNCHANGED part

\* read the temp file, Papa.parse, validateCSVSchema, uuidv4()
Validate(a) ==
  /\ pc[a] = "claimed"
  /\ \E readable \in BOOLEAN :
       LET parseResult == PapaParse(upload[a].bytes)
           validation  == validateCSVSchema(parseResult.data)
           key         == LedgerKey(fileHash[a])
       IN  IF ~readable
             THEN /\ Catch(a, "read")
                  /\ UNCHANGED <<batchId, issued>>
           ELSE IF parseResult.errors # {}
             THEN /\ Send(a, Response(400, "CSV parsing failed"))
                  /\ ledger' = ledgerOnInvalid(ledger, key)
                  /\ Finally(a)
                  /\ UNCHANGED <<batchId, issued, fault>>
           ELSE IF ~validation.valid
             THEN /\ Send(a, ValidationFailed(validation))
                  /\ ledger' = ledgerOnInvalid(ledger, key)
                  /\ Finally(a)
                  /\ UNCHANGED <<batchId, issued, fault>>
           ELSE /\ batchId' = [batchId EXCEPT ![a] = uuidv4(issued)]
                /\ issued' = issued + 1
                /\ pc' = [pc EXCEPT ![a] = "validated"]
                /\ UNCHANGED <<resp, fault, tmp, ledger>>
  /\ UNCHANGED <<upload, fileHash, isNotDuplicate, prior, processed, events>>
  /\ UNCHANGED readerVars
  /\ UNCHANGED <<validatorVars, simulatorVars>>
  /\ UNCHANGED part

\* fs.copyFileSync(tempFilePath, finalFilePath) creates the destination
CopyStart(a) ==
  /\ pc[a] = "validated"
  /\ \E ok \in BOOLEAN :
       IF ok
         THEN /\ processed' = (finalFilePath(batchId[a]) :> <<>>) @@ processed
              /\ pc' = [pc EXCEPT ![a] = "copying"]
              /\ UNCHANGED <<resp, fault, tmp, ledger>>
         ELSE /\ Catch(a, "storage")
              /\ UNCHANGED processed
  /\ UNCHANGED <<upload, fileHash, isNotDuplicate, batchId, prior, events, issued>>
  /\ UNCHANGED readerVars
  /\ UNCHANGED <<validatorVars, simulatorVars>>
  /\ UNCHANGED part

\* variant: the destination of a failed copy is left in the directory
RemoveFileKeeps(dir, path) == dir

\* the files of a directory without one path
RemoveFile(dir, path) == [p \in DOMAIN dir \ {path} |-> dir[p]]

\* fs.copyFileSync writes the bytes and returns, or fails and unlinks the
\* destination it had created
CopyEnd(a) ==
  /\ pc[a] = "copying"
  /\ \E ok \in BOOLEAN :
       IF ok
         THEN /\ processed' = [processed EXCEPT
                                 ![finalFilePath(batchId[a])] = upload[a].bytes]
              /\ pc' = [pc EXCEPT ![a] = "stored"]
              /\ UNCHANGED <<resp, fault, tmp, ledger>>
         ELSE /\ processed' = RemoveFile(processed, finalFilePath(batchId[a]))
              /\ Catch(a, "storage")
  /\ UNCHANGED <<upload, fileHash, isNotDuplicate, batchId, prior, events, issued>>
  /\ UNCHANGED readerVars
  /\ UNCHANGED <<validatorVars, simulatorVars>>
  /\ UNCHANGED part

\* variant: the header line is counted as a record
recordCountLines(parseResult) == Len(parseResult.data) + 1

\* recordCount: parseResult.data.length
recordCount(parseResult) == Len(parseResult.data)

\* variant: the publish call does not wait for copyFileSync to return
PublishReadyEarly(a) == pc[a] \in {"copying", "stored"}

\* the publish call comes after copyFileSync has returned
PublishReady(a) == pc[a] = "stored"

\* await publishBatchCreated(batchId, finalFilePath), then res.json({...})
Publish(a) ==
  /\ PublishReady(a)
  /\ \E delivered \in BOOLEAN :
       LET path == finalFilePath(batchId[a])
           ok   == [Response(200, "") EXCEPT
                      !.batchId = batchId[a], !.filePath = path,
                      !.recordCount = recordCount(PapaParse(upload[a].bytes)),
                      !.hash = fileHash[a]]
       IN  /\ events' = IF delivered
                          THEN publish(events, BatchCreatedEvent(batchId[a], path))
                          ELSE events
           /\ IF publishBatchCreated(delivered) = "returned"
                THEN /\ Send(a, ok)
                     /\ Finally(a)
                     /\ fault' = [fault EXCEPT ![a] = IF delivered THEN @ ELSE "publish"]
                     /\ UNCHANGED ledger
                ELSE Catch(a, "publish")
  /\ UNCHANGED <<upload, fileHash, isNotDuplicate, batchId, prior, processed, issued>>
  /\ UNCHANGED readerVars
  /\ UNCHANGED <<validatorVars, simulatorVars>>
  /\ UNCHANGED part

\* the batch ids a status request may name
BatchIds == 1..MaxAttempts

\* app.get('/batch/:batchId/status'): existsSync, then statSync
BatchStatusHandler(dir, id) ==
  LET filePath == finalFilePath(id)
  IN  IF filePath \notin DOMAIN dir
        THEN [NoStatus EXCEPT !.status = 404, !.error = "Batch not found"]
        ELSE [NoStatus EXCEPT !.status = 200, !.batchId = id,
                              !.filePath = filePath,
                              !.size = byteLength(dir[filePath])]

\* a client asks for the status of a batch; the worker that answers reads
\* the directory another worker may be writing
BatchStatus(id) ==
  /\ statusReply' = BatchStatusHandler(processed, id)
  /\ UNCHANGED <<ingestVars, disk, request, reply, observed, lastMeta, validatorVars, simulatorVars>>

Next ==
  \/ \E a \in Attempts :
       \/ Upload(a)
       \/ UploadRejected(a)
       \/ UploadNoFile(a)
       \/ Hash(a)
       \/ Claim(a)
       \/ Validate(a)
       \/ CopyStart(a)
       \/ CopyEnd(a)
       \/ Publish(a)
  \/ \E id \in BatchIds : BatchStatus(id)

Spec == Init /\ [][Next]_vars

(* ------------------------ the shared data volume ----------------------- *)

\* the hexadecimal digits of the text of a batch id
HexDigits ==
  <<"0", "1", "2", "3", "4", "5", "6", "7", "8", "9", "a", "b", "c", "d", "e", "f">>

\* the text of a batch id, as it appears in `${batchId}`
uuidString(id) ==
  <<HexDigits[((id \div 16) % 16) + 1], HexDigits[(id % 16) + 1]>>

\* the characters of `/app/data/processed/${batchId}.csv`
finalFilePathString(id) ==
  <<"/", "a", "p", "p", "/", "d", "a", "t", "a", "/", "p", "r", "o", "c", "e", "s", "s", "e", "d", "/">> \o uuidString(id) \o <<".", "c", "s", "v">>

\* every file under /app/data: those of the processed directory and the rest
volume(dir, rest) ==
  LET ids == {p[2] : p \in DOMAIN dir}
      id(q) == CHOOSE i \in ids : finalFilePathString(i) = q
  IN  [q \in DOMAIN rest \cup {finalFilePathString(i) : i \in ids} |->
         IF q \in DOMAIN rest THEN rest[q] ELSE dir[finalFilePath(id(q))]]

(* ---------------------- evidence service: steps ------------------------ *)

\* file names a request may carry in :filename, percent-decoded
FileNames ==
  {<<"a", ".", "c", "s", "v">>, <<"B", ".", "C", "S", "V">>, <<"n", ".", "c", "s", "v">>, <<"s", "t", "a", "t", "s">>, <<"s", "e", "a", "r", "c", "h">>,
   <<".", ".", "/", "e", "v", "i", "d", "e", "n", "c", "e", "2", "/", "s">>, <<".", ".", "/", "e", "v", "i", "d", "e", "n", "c", "e", "2", "/", "x">>, <<".", ".", "/", "s">>, <<".", ".", "/", ".", ".", "/", ".", ".", "/", "s">>,
   <<"a", ".", "c", "s", "v", "/", ".", ".", "/", "B", ".", "C", "S", "V">>}

\* patterns a request may carry in :pattern
Patterns == {<<>>, <<"c", "s", "v">>, <<"C", "S", "V">>, <<"a">>, <<"b", ".", "c">>, <<"m", "e", "t", "a", "d", "a", "t", "a">>, <<"z", "z">>}

\* the request paths, as lists of decoded segments
Requests ==
  {<<f>> : f \in FileNames} \cup
  {<<f, <<"m", "e", "t", "a", "d", "a", "t", "a">>>> : f \in FileNames} \cup
  {<<<<"s", "e", "a", "r", "c", "h">>, q>> : q \in Patterns} \cup
  {<<<<"h", "e", "a", "l", "t", "h">>>>, <<<<"m", "e", "t", "r", "i", "c", "s">>>>, <<<<"f", "i", "l", "e", "s">>>>, <<<<"a">>, <<"b">>, <<"c">>>>}

\* names another component may write in the evidence directory
WrittenNames == {<<"a", ".", "c", "s", "v">>, <<"n", ".", "c", "s", "v">>}

\* the metadata response that is being replaced, with the bytes it saw
MetaOf(r, fs) ==
  [filename |-> r.filename, hash |-> r.hash,
   bytes |-> fs[pathJoin(EVIDENCE_DIR, r.filename)]]

\* the evidence service answers GET <segs>
Request(segs) ==
  /\ request' = segs
  /\ reply' = handle(disk, segs)
  /\ observed' = disk
  /\ lastMeta' = IF reply.handler = "metadata" /\ reply.status = 200
                   THEN MetaOf(reply, observed)
                   ELSE lastMeta
  /\ UNCHANGED <<ingestVars, statusReply, disk, validatorVars, simulatorVars>>

\* another component writes a file of the evidence directory
EvidenceWritten(name, bytes) ==
  /\ disk' = (pathJoin(EVIDENCE_DIR, name) :> bytes) @@ disk
  /\ UNCHANGED <<ingestVars, statusReply, request, reply, observed, lastMeta, validatorVars, simulatorVars>>

\* another component removes a file of the evidence directory
EvidenceRemoved(name) ==
  /\ pathJoin(EVIDENCE_DIR, name) \in DOMAIN disk
  /\ disk' = RemoveFile(disk, pathJoin(EVIDENCE_DIR, name))
  /\ UNCHANGED <<ingestVars, statusReply, request, reply, observed, lastMeta, validatorVars, simulatorVars>>

NextEvidence ==
  \/ \E segs \in Requests : Request(segs)
  \/ \E name \in WrittenNames : \E bytes \in {FileGood1, FileGood2} :
       EvidenceWritten(name, bytes)
  \/ \E name \in WrittenNames : EvidenceRemoved(name)

SpecEvidence == Init /\ [][NextEvidence]_vars

(* ------------------- evidence service: route dispatch ------------------ *)

\* file names that are also the names of routes
RouteNames == {<<"f", "i", "l", "e", "s">>, <<"h", "e", "a", "l", "t", "h">>, <<"m", "e", "t", "r", "i", "c", "s">>, <<"s", "e", "a", "r", "c", "h">>}

\* request paths that name a fixed route, a file or the metadata of a file
RouteRequests ==
  {<<n>> : n \in RouteNames} \cup
  {<<n, <<"m", "e", "t", "a", "d", "a", "t", "a">>>> : n \in RouteNames \cup {<<"a", ".", "c", "s", "v">>}} \cup
  {<<<<"f", "i", "l", "e", "s">>, <<>>>>, <<<<"a", ".", "c", "s", "v">>>>, <<<<"s", "e", "a", "r", "c", "h">>, <<"f", "i", "l", "e", "s">>>>}

\* requests are answered while another component writes and removes files
\* that bear the names of routes
NextRouting ==
  \/ \E segs \in RouteRequests : Request(segs)
  \/ \E name \in RouteNames : EvidenceWritten(name, FileGood1)
  \/ \E name \in RouteNames : EvidenceRemoved(name)

SpecRouting == Init /\ [][NextRouting]_vars

(* -------------------- ingest service: batch status by text ------------- *)

\* the directories ensureDirectories makes when the service starts
ensureDirectories ==
  {<<"/", "a", "p", "p", "/", "d", "a", "t", "a">>, <<"/", "a", "p", "p", "/", "d", "a", "t", "a", "/", "p", "r", "o", "c", "e", "s", "s", "e", "d">>, <<"/", "a", "p", "p", "/", "d", "a", "t", "a", "/", "r", "e", "c", "o", "n", "-", "o", "u", "t", "p", "u", "t">>,
   <<"/", "a", "p", "p", "/", "d", "a", "t", "a", "/", "e", "v", "i", "d", "e", "n", "c", "e">>}

\* the names of a path, from the root
namesOf(p) == resolveSegments(splitSlash(p), <<>>)

\* a list of names and all the lists it starts with
Prefixes(names) == {SubSeq(names, 1, k) : k \in 0..Len(names)}

\* the directories of a file system: those made at start and those that
\* hold a file
Directories(fs) ==
  UNION {Prefixes(namesOf(d)) : d \in ensureDirectories} \cup
  UNION {Prefixes(SubSeq(namesOf(p), 1, Len(namesOf(p)) - 1)) : p \in DOMAIN fs}

\* no such file or directory
ENOENT == << <<>> >>

RECURSIVE walk(_, _, _)
\* the path walk of the file system calls: '..' is the parent of the
\* directory reached so far, and a name that is followed by another must be
\* an existing directory
walk(dirs, names, reached) ==
  IF names = <<>> THEN reached
  ELSE LET h == Head(names)
       IN  IF h = <<>> \/ h = <<".">>
             THEN walk(dirs, Tail(names), reached)
           ELSE IF h = <<".", ".">>
             THEN walk(dirs, Tail(names),
                       IF reached = <<>> THEN <<>>
                       ELSE SubSeq(reached, 1, Len(reached) - 1))
           ELSE IF Tail(names) # <<>> /\ Append(reached, h) \notin dirs
             THEN ENOENT
           ELSE walk(dirs, Tail(names), Append(reached, h))

\* the file a list of names leads to, from the root
fileAt(fs, names) == joinSlash(walk(Directories(fs), names, <<>>))

\* `/app/data/processed/${batchId}.csv` for the text of req.params.batchId
filePathOf(text) == <<"/", "a", "p", "p", "/", "d", "a", "t", "a", "/", "p", "r", "o", "c", "e", "s", "s", "e", "d", "/">> \o text \o <<".", "c", "s", "v">>

\* the names of that path: those of the directory, then those of
\* `${batchId}.csv`
filePathNames(text) ==
  splitSlash(<<"/", "a", "p", "p", "/", "d", "a", "t", "a", "/", "p", "r", "o", "c", "e", "s", "s", "e", "d">>) \o splitSlash(text \o <<".", "c", "s", "v">>)

\* app.get('/batch/:batchId/status') for the text of req.params.batchId:
\* fs.existsSync(filePath), then fs.statSync(filePath).size
BatchStatusOfText(fs, text) ==
  LET filePath == filePathOf(text)
      file     == fileAt(fs, filePathNames(text))
  IN  IF ~existsSync(fs, file)
        THEN [NoStatus EXCEPT !.status = 404, !.error = "Batch not found"]
        ELSE [NoStatus EXCEPT !.status = 200, !.batchId = text,
                              !.filePath = filePath,
                              !.size = byteLength(fs[file])]

\* values of :batchId in a request, percent-decoded: ids of artifacts, an
\* unknown id, and texts with '..' segments
BatchIdTexts ==
  {uuidString(1), <<"z", "z">>, <<".", ".", "/", "e", "v", "i", "d", "e", "n", "c", "e", "/", "a">>, <<".", ".", "/", "e", "v", "i", "d", "e", "n", "c", "e", "/", "n">>,
   <<".", ".", "/", "e", "v", "i", "d", "e", "n", "c", "e", "/", "B">>, <<".", ".", "/", "p", "r", "o", "c", "e", "s", "s", "e", "d", "/", "0", "1">>, <<"z", "z", "/", ".", ".", "/", "0", "1">>,
   <<"z", "z", "/", ".", ".", "/", ".", ".", "/", "e", "v", "i", "d", "e", "n", "c", "e", "/", "a">>, <<".", ".", "/", ".", ".", "/", ".", ".", "/", "a", "p", "p", "/", "d", "a", "t", "a", "/", "s">>}

\* GET /batch/<batchId>/status
BatchStatusText(text) ==
  /\ statusReply' = BatchStatusOfText(volume(processed, disk), text)
  /\ UNCHANGED <<ingestVars, disk, request, reply, observed, lastMeta, validatorVars, simulatorVars>>

\* an upload has stored an artifact: fs.copyFileSync(tempFilePath,
\* finalFilePath) has returned
ArtifactStored(id, bytes) ==
  /\ finalFilePathString(id) \notin DOMAIN disk
  /\ disk' = (finalFilePathString(id) :> bytes) @@ disk
  /\ UNCHANGED <<ingestVars, statusReply, request, reply, observed, lastMeta, validatorVars, simulatorVars>>

\* status requests are answered while artifacts are stored and evidence
\* files are written and removed
NextStatus ==
  \/ \E text \in BatchIdTexts : BatchStatusText(text)
  \/ \E id \in {1, 2} : \E bytes \in {FileGood1, FileGood2} : ArtifactStored(id, bytes)
  \/ \E name \in WrittenNames : \E bytes \in {FileGood1, FileGood2} :
       EvidenceWritten(name, bytes)
  \/ \E name \in WrittenNames : EvidenceRemoved(name)

SpecStatus == Init /\ [][NextStatus]_vars

(* ------------------------- validator: steps ---------------------------- *)

\* number of records of a record set
MaxRows == 2

\* a record with all six fields
Row(transactionId, amount, paymentMethod, timestamp) ==
  [transactionId |-> transactionId, amount |-> amount, fromAccount |-> "ACC1",
   toAccount |-> "ACC2", paymentMethod |-> paymentMethod, timestamp |-> timestamp]

\* a record Papa.parse builds from a line with four fields only
ShortRecord ==
  [transactionId |-> "T1", amount |-> "100.50", fromAccount |-> "ACC1",
   toAccount |-> "ACC2"]

\* the records the record sets are made of
Records ==
  {Row("T1", "100.50", "RTGS", "2024-01-01"),
   Row("T1", "0", "RTGS", "2024-01-01"),
   Row("T1", "-5", "UPI", "2024-01-01"),
   Row("T1", "abc", "RTGS", "2024-01-01"),
   Row("T1", "12abc", "RTGS", "2024-01-01"),
   Row("T1", " ", "RTGS", "2024-01-01"),
   Row("T1", "250", "CASH", "2024-01-01"),
   Row("T1", "250", "rtgs", "2024-01-01"),
   Row("T1", "250", "", "2024-01-01"),
   Row("", "0", "CASH", "2024-01-01"),
   Row("T1", "250", "NEFT", "  "),
   ShortRecord}

\* the record sets: up to MaxRows records
RecordSets == UNION {[1..n -> Records] : n \in 0..MaxRows}

\* validateCSVSchema is called with a record set
Validates(records) ==
  /\ data' = records
  /\ report' = validateCSVSchema(records)
  /\ UNCHANGED <<ingestVars, readerVars, simulatorVars>>

NextValidator == \E records \in RecordSets : Validates(records)

SpecValidator == Init /\ [][NextValidator]_vars

(* ------------------------- simulator: steps ---------------------------- *)

\* amounts a transaction may carry, in paise: 0, a negative amount, 1 rupee,
\* 25 000, 100 000, 123 456.78 and 1 000 000 rupees
Amounts == {0, -50000, 100, 2500000, 10000000, 12345678, 100000000}

\* the amount property of a transaction: missing, or one of the amounts
AmountInputs ==
  {[given |-> FALSE, value |-> 0]} \cup {[given |-> TRUE, value |-> v] : v \in Amounts}

\* an object with the one property, or without it when the value is missing
Property(name, value) == IF value = Undefined THEN <<>> ELSE (name :> value)

\* the transaction objects of the request bodies
Transactions ==
  {(IF am.given THEN ("amount" :> am.value) ELSE <<>>)
     @@ Property("fromAccount", fr) @@ Property("toAccount", to)
     @@ Property("upiId", up) @@ Property("paymentMethod", pm) :
   am \in AmountInputs,
   fr \in {Undefined, "", "1234567890"},
   to \in {Undefined, "0987654321"},
   up \in {Undefined, "user@paytm"},
   pm \in {Undefined, "CASH"}}

\* the transactions with every property and an amount of 100 000 rupees
FullTransactions ==
  {t \in Transactions :
     /\ {"amount", "fromAccount", "toAccount", "upiId"} \subseteq DOMAIN t
     /\ t.amount = 10000000
     /\ t.fromAccount # ""}

\* the outcomes a request body may carry
Outcomes == {Undefined, "success", "failure", "FAILURE"}

\* the failure codes a request body may carry
Codes == {Undefined, "", "INSUFFICIENT_FUNDS", "NOT_LISTED"}

\* the request bodies: every transaction with outcome success, the full
\* transactions and the missing transaction with every outcome and code
Bodies ==
  {[given |-> TRUE, transaction |-> t, outcome |-> "success",
    failureCode |-> Undefined] : t \in Transactions}
  \cup
  {[given |-> TRUE, transaction |-> t, outcome |-> o, failureCode |-> c] :
     t \in FullTransactions, o \in Outcomes, c \in Codes}
  \cup
  {[given |-> FALSE, transaction |-> <<>>, outcome |-> o, failureCode |-> c] :
     o \in Outcomes, c \in Codes}

\* POST /simulate/<rail> with the body is answered
Simulates(rail, body) ==
  /\ simulated' = [rail |-> rail, given |-> body.given,
                   transaction |-> body.transaction, outcome |-> body.outcome,
                   failureCode |-> body.failureCode]
  /\ statement' = simulate(rail, body)
  /\ UNCHANGED <<ingestVars, readerVars, validatorVars>>

NextSimulator == \E rail \in Rails : \E body \in Bodies : Simulates(rail, body)

SpecSimulator == Init /\ [][NextSimulator]_vars

(* --------------------------- vocabulary -------------------------------- *)

Done(a) == pc[a] = "done"

Out(a) == Outcome(resp[a])

\* attempts that have uploaded the bytes
AttemptsOn(bytes) == {a \in Attempts : pc[a] # "idle" /\ upload[a].bytes = bytes}

\* the bytes parse without errors and pass validateCSVSchema
WellFormed(bytes) ==
  LET parseResult == PapaParse(bytes)
  IN  /\ parseResult.errors = {}
      /\ validateCSVSchema(parseResult.data).valid

\* the messages on the channel that carry the batchId
EventsOf(id) == {i \in 1..Len(events) : events[i].batchId = id}

\* the attempt's artifact is in the processed directory with all its bytes
Stored(a) ==
  /\ batchId[a] # 0
  /\ finalFilePath(batchId[a]) \in DOMAIN processed
  /\ processed[finalFilePath(batchId[a])] = upload[a].bytes

\* an ERROR met before the claim was taken: hash read or ledger call failed
EarlyError(a) == Out(a) = "ERROR" /\ fault[a] \in {"hash", "ledger"}

(* ------------------------------ C1 ------------------------------------- *)

\* C1 as stated: when bytes B were uploaded two or more times and all the
\* attempts are over, exactly one attempt ended STORED and every other
\* attempt ended DUPLICATE.
C1_OneStoredOthersDuplicate ==
  \A bytes \in Files :
    LET all == AttemptsOn(bytes)
    IN  (Cardinality(all) >= 2 /\ \A a \in all : Done(a)) =>
          \E w \in all :
            /\ Out(w) = "STORED"
            /\ \A o \in all \ {w} : Out(o) = "DUPLICATE"

\* C1 amended: for every byte sequence B, at most one attempt on B ends
\* STORED and at most one ends otherwise than DUPLICATE or an ERROR met
\* before the claim; when B is well-formed and no attempt on B met a
\* failure of hashing, ledger, temp-file read or storage, exactly one
\* attempt ends STORED and every other attempt ends DUPLICATE.
C1_AtMostOneStored ==
  \A bytes \in Files :
    LET all    == AttemptsOn(bytes)
        over   == {a \in all : Done(a)}
        stored == {a \in over : Out(a) = "STORED"}
        others == {a \in over : Out(a) # "DUPLICATE" /\ ~EarlyError(a)}
    IN  /\ Cardinality(stored) <= 1
        /\ Cardinality(others) <= 1
        /\ ( ( /\ all # {}
               /\ over = all
               /\ WellFormed(bytes)
               /\ \A a \in all : fault[a] \in {"none", "publish"} )
             => ( /\ Cardinality(stored) = 1
                  /\ \A a \in all \ stored : Out(a) = "DUPLICATE" ) )

\* all the attempts on the same well-formed bytes are over, one STORED and
\* the others DUPLICATE
C1_Witness ==
  \E bytes \in Files :
    /\ WellFormed(bytes)
    /\ Cardinality(AttemptsOn(bytes)) >= 2
    /\ \A a \in AttemptsOn(bytes) : Done(a)
    /\ \E w \in AttemptsOn(bytes) :
         /\ Out(w) = "STORED"
         /\ \A o \in AttemptsOn(bytes) \ {w} : Out(o) = "DUPLICATE"

(* ------------------------------ C2 ------------------------------------- *)

\* C2: among the callers of checkDuplicate on one hash that got a reply,
\* exactly one observed true (won) and all the others observed false (lost).
C2_ExactlyOneWinner ==
  \A bytes \in Files :
    LET callers == {a \in Attempts : /\ fileHash[a] = sha256hex(bytes)
                                     /\ isNotDuplicate[a] \in {"true", "false"}}
    IN  callers # {} =>
          \E w \in callers :
            /\ isNotDuplicate[w] = "true"
            /\ \A o \in callers \ {w} : isNotDuplicate[o] = "false"

\* two callers on one hash: one won, one lost
C2_Witness ==
  \E a, b \in Attempts :
    /\ a # b
    /\ fileHash[a] # ""
    /\ fileHash[a] = fileHash[b]
    /\ isNotDuplicate[a] = "true"
    /\ isNotDuplicate[b] = "false"

(* ------------------------------ C3 ------------------------------------- *)

\* C3: every batch.created message on the channel names the batchId and
\* path of an artifact that is in the processed directory with all the
\* bytes of the attempt that published it.
C3_NotifiedImpliesStored ==
  \A i \in 1..Len(events) :
    \E a \in Attempts :
      /\ events[i].batchId = batchId[a]
      /\ events[i].filePath = finalFilePath(batchId[a])
      /\ Stored(a)

\* a notification is on the channel
C3_Witness ==
  /\ Len(events) >= 1
  /\ events[1].filePath \in DOMAIN processed

(* ------------------------------ C4 ------------------------------------- *)

\* C4 as stated: an upload of bytes B that arrives after an attempt on B
\* has ended INVALID ends DUPLICATE.
C4_LaterUploadIsDuplicate ==
  \A a \in Attempts :
    (Done(a) /\ "INVALID" \in prior[a]) => Out(a) = "DUPLICATE"

\* C4 amended: the claim taken for hash(B) stays when the attempt ends
\* INVALID, and an upload of B that arrives later never wins the claim: it
\* ends DUPLICATE, or ERROR when its own hash read or ledger call fails;
\* never INVALID and never STORED.
C4_BurnedAfterInvalid ==
  /\ \A a \in Attempts :
       (Done(a) /\ Out(a) = "INVALID") => LedgerKey(fileHash[a]) \in ledger
  /\ \A a \in Attempts :
       "INVALID" \in prior[a] =>
         /\ pc[a] \in {"received", "hashed", "done"}
         /\ isNotDuplicate[a] # "true"
         /\ Done(a) => (Out(a) = "DUPLICATE" \/ EarlyError(a))

\* an attempt ended INVALID and a later upload of the same bytes ended
\* DUPLICATE
C4_Witness ==
  \E a, b \in Attempts :
    /\ a < b
    /\ upload[a].bytes = upload[b].bytes
    /\ Done(a) /\ Out(a) = "INVALID"
    /\ "INVALID" \in prior[b]
    /\ Done(b) /\ Out(b) = "DUPLICATE"

(* ------------------------------ C5 ------------------------------------- *)

\* C5: no step removes a key from the ledger, and a claim made on a hash
\* whose key is in the ledger never observes true (won).
C5_LedgerAppendOnly ==
  [][ /\ ledger \subseteq ledger'
      /\ \A a \in Attempts :
           ( /\ LedgerKey(fileHash[a]) \in ledger
             /\ isNotDuplicate[a] = "none"
             /\ isNotDuplicate'[a] # "none" )
           => isNotDuplicate'[a] # "true" ]_vars

\* an attempt that held the claim has ended INVALID or ERROR, its key is
\* still in the ledger, and a later claim on the same hash has lost
C5_Witness ==
  \E a, b \in Attempts :
    /\ isNotDuplicate[a] = "true"
    /\ Done(a) /\ Out(a) \in {"INVALID", "ERROR"}
    /\ LedgerKey(fileHash[a]) \in ledger
    /\ fileHash[b] = fileHash[a]
    /\ isNotDuplicate[b] = "false"

(* ------------------------------ C6 ------------------------------------- *)

\* C6: an attempt whose ledger call was rejected is over with status 500;
\* it has not been taken as a non-duplicate, has no batchId, has written
\* no file of the processed directory and has published no message.
C6_LedgerFailsClosed ==
  \A a \in Attempts :
    fault[a] = "ledger" =>
      /\ Done(a)
      /\ resp[a].status = 500
      /\ isNotDuplicate[a] = "throw"
      /\ batchId[a] = 0
      /\ \A p \in DOMAIN processed :
           \E b \in Attempts \ {a} : batchId[b] # 0 /\ p = finalFilePath(batchId[b])
      /\ \A i \in 1..Len(events) :
           \E b \in Attempts \ {a} : batchId[b] # 0 /\ events[i].batchId = batchId[b]

\* an attempt met an unreachable ledger and is over; its hash has not
\* been claimed
C6_Witness ==
  \E a \in Attempts :
    /\ fault[a] = "ledger"
    /\ Done(a)
    /\ LedgerKey(fileHash[a]) \notin ledger

(* ------------------------------ C7 ------------------------------------- *)

\* C7: an attempt whose publish was rejected is answered 200 with its
\* batchId, path, record count and hash; its artifact is in the processed
\* directory with all its bytes and its claim is in the ledger.
C7_PublishFailureKeepsCommit ==
  \A a \in Attempts :
    fault[a] = "publish" =>
      /\ Done(a)
      /\ resp[a].status = 200
      /\ resp[a].batchId = batchId[a]
      /\ resp[a].filePath = finalFilePath(batchId[a])
      /\ resp[a].hash = fileHash[a]
      /\ Stored(a)
      /\ LedgerKey(fileHash[a]) \in ledger

\* a publish was rejected and nothing about the batch is on the channel
C7_Witness ==
  \E a \in Attempts :
    /\ fault[a] = "publish"
    /\ EventsOf(batchId[a]) = {}
    /\ Stored(a)

(* ------------------------------ C8 ------------------------------------- *)

\* C8 as stated: for every attempt that has stored an artifact and is
\* over, exactly one batch.created message carries its batchId, and that
\* message carries the path of the artifact.
C8_ExactlyOneEvent ==
  \A a \in Attempts :
    (Done(a) /\ Stored(a)) =>
      /\ Cardinality(EventsOf(batchId[a])) = 1
      /\ \A i \in EventsOf(batchId[a]) :
           events[i] = [type |-> "batch.created", batchId |-> batchId[a],
                        filePath |-> finalFilePath(batchId[a])]

\* C8 amended: for every attempt that has stored an artifact and is over,
\* at most one batch.created message carries its batchId: exactly one
\* when the publish call succeeded and none when it was rejected; the
\* message carries the attempt's batchId and the path of the artifact.
\* No message carries the batchId of an attempt without a stored artifact.
C8_AtMostOneEvent ==
  \A a \in Attempts :
    /\ (Done(a) /\ Stored(a)) =>
         Cardinality(EventsOf(batchId[a])) = IF fault[a] = "publish" THEN 0 ELSE 1
    /\ batchId[a] # 0 =>
         /\ Cardinality(EventsOf(batchId[a])) <= 1
         /\ \A i \in EventsOf(batchId[a]) :
              /\ events[i] = [type |-> "batch.created", batchId |-> batchId[a],
                              filePath |-> finalFilePath(batchId[a])]
              /\ Stored(a)

\* two committed batches, one announced by one message, the other not
\* announced because its publish was rejected
C8_Witness ==
  \E a, b \in Attempts :
    /\ Done(a) /\ Stored(a) /\ fault[a] = "none"
    /\ Cardinality(EventsOf(batchId[a])) = 1
    /\ Done(b) /\ Stored(b) /\ fault[b] = "publish"

(* ------------------------------ C9 ------------------------------------- *)

\* C9: no step of an attempt that is answered DUPLICATE changes the
\* ledger, the processed directory or the channel, and neither do the
\* steps an attempt takes before its claim (arrival and hashing).
C9_DuplicateHasNoEffect ==
  [][ \A a \in Attempts :
        ( /\ pc'[a] # pc[a]
          /\ \/ Outcome(resp'[a]) = "DUPLICATE"
             \/ pc[a] \in {"idle", "received"} )
        => /\ ledger' = ledger
           /\ processed' = processed
           /\ events' = events ]_vars

\* an attempt was answered DUPLICATE while the winner of the claim was
\* still on its way to storage
C9_Witness ==
  \E a, b \in Attempts :
    /\ Done(a) /\ Out(a) = "DUPLICATE"
    /\ fileHash[b] = fileHash[a]
    /\ pc[b] \in {"claimed", "validated", "copying", "stored"}

(* ------------------------------ C10 ------------------------------------ *)

\* C10: a retry of well-formed bytes B that arrives after an attempt on B
\* ended ERROR on an unreachable ledger or a failed storage write, that
\* meets no failure itself and is the only attempt on B at work, ends
\* STORED.
C10_ErrorIsRetryable ==
  \A a \in Attempts :
    ( /\ Done(a)
      /\ WellFormed(upload[a].bytes)
      /\ fault[a] = "none"
      /\ prior[a] \cap {"ledger", "storage"} # {}
      /\ prior[a] \cap {"INFLIGHT", "STORED"} = {}
      /\ \A b \in AttemptsOn(upload[a].bytes) : b <= a )
    => Out(a) = "STORED"


(* ---------------------- vocabulary: evidence --------------------------- *)

\* the response comes from get(filename) or metadata(filename)
ByGetOrMetadata(r) == r.handler \in {"file", "metadata"}

\* the path the handler resolved the filename of the response to
ResolvedPath(r) == pathJoin(EVIDENCE_DIR, r.filename)

\* the path names something located inside the storage root
InsideRoot(filePath) == startsWith(filePath, EVIDENCE_DIR \o <<"/">>)

\* the resolution leaves the storage root
Escapes(filePath) == filePath # EVIDENCE_DIR /\ ~InsideRoot(filePath)

\* the response carries no bytes and no metadata
Empty(r) == r.body = <<>> /\ r.hash = "" /\ r.size = 0 /\ r.mimeType = ""

(* ------------------------------ C11 ------------------------------------ *)
\* C11: whatever filename get(filename) or metadata(filename) is given,
\* '../' names and names of a sibling directory whose name starts with the
\* root's name included, a response with bytes or metadata is about a file
\* located inside /app/data/evidence.

C11_NeverServesOutsideRoot ==
  (ByGetOrMetadata(reply) /\ reply.status = 200)
    => InsideRoot(ResolvedPath(reply))

(* ------------------------------ C12 ------------------------------------ *)
\* C12: a filename whose resolution against the storage root escapes the
\* root is answered 400 'Invalid file path' by get and metadata: not 404,
\* not served, not clamped.

C12_EscapeIsInvalidPath ==
  (ByGetOrMetadata(reply) /\ Escapes(ResolvedPath(reply)))
    => (reply.status = 400 /\ reply.error = "Invalid file path" /\ Empty(reply))

(* ------------------------------ C13 ------------------------------------ *)
\* C13: GET /stats is answered 200 with totalFiles, the number of entries
\* of the storage root, and totalSize, the sum of their sizes, whatever the
\* storage root holds.

C13_StatsAnswered ==
  (request = << <<"s", "t", "a", "t", "s">> >>)
    => (/\ reply.status = 200
        /\ reply.totalFiles = Cardinality(readdirSync(observed, EVIDENCE_DIR))
        /\ reply.totalSize = sumSizes(observed, readdirSync(observed, EVIDENCE_DIR)))

(* ------------------------------ C14 ------------------------------------ *)
\* C14: search(pattern) returns exactly the entries of list() whose filename
\* contains the pattern, compared without regard to case; search with the
\* empty pattern returns every entry of list().

C14_SearchFiltersList ==
  \A q \in Patterns :
    (request = << <<"s", "e", "a", "r", "c", "h">>, q >>)
      => (/\ reply.status = 200
          /\ reply.files =
               {e \in FilesHandler(observed).files :
                  includes(toLowerCase(e.filename), toLowerCase(q))}
          /\ (q = <<>> => reply.files = FilesHandler(observed).files))

(* ------------------------------ C15 ------------------------------------ *)
\* C15: when the filename given to get or metadata resolves inside the
\* storage root and no file exists there, the answer is 404 'File not
\* found' and carries no bytes and no metadata.

C15_MissingIsNotFound ==
  (/\ ByGetOrMetadata(reply)
   /\ InsideRoot(ResolvedPath(reply))
   /\ ~existsSync(observed, ResolvedPath(reply)))
    => (reply.status = 404 /\ reply.error = "File not found" /\ Empty(reply))

C15_Witness ==
  /\ reply.handler = "metadata"
  /\ reply.filename = <<"n", ".", "c", "s", "v">>
  /\ ~existsSync(observed, ResolvedPath(reply))
  /\ reply.status = 404

(* ------------------------------ C16 ------------------------------------ *)
\* C16: every successful metadata response carries the digest of the bytes
\* the file holds when the call is made; when the bytes differ from those
\* the previous metadata call on the same name saw, the digest differs from
\* the one that call returned.

C16_DigestIsLive ==
  (reply.handler = "metadata" /\ reply.status = 200)
    => LET now == observed[ResolvedPath(reply)]
       IN  /\ reply.hash = sha256hex(now)
           /\ (lastMeta.filename = reply.filename /\ lastMeta.bytes # now)
                => (reply.hash # lastMeta.hash)

C16_Witness ==
  /\ reply.handler = "metadata"
  /\ reply.status = 200
  /\ lastMeta.filename = reply.filename
  /\ lastMeta.bytes # observed[ResolvedPath(reply)]
  /\ reply.hash # lastMeta.hash


(* ------------------------------ C17 ------------------------------------ *)
\* C17: the artifact of every admitted batch can be retrieved from the
\* Evidence Repository, and the digest its metadata computes from the
\* stored bytes is the hash the upload response carried.

\* the file names under which a client may ask for the artifact of a batch
RetrievalNames(id) ==
  {uuidString(id) \o <<".", "c", "s", "v">>,
   uuidString(id),
   <<".", ".", "/", "p", "r", "o", "c", "e", "s", "s", "e", "d", "/">> \o uuidString(id) \o <<".", "c", "s", "v">>}

C17_RoundTrip ==
  \A a \in Attempts :
    (Done(a) /\ Out(a) = "STORED")
      => \E name \in RetrievalNames(batchId[a]) :
           LET fs == volume(processed, disk)
           IN  /\ FileHandler(fs, name).status = 200
               /\ MetadataHandler(fs, name).status = 200
               /\ MetadataHandler(fs, name).hash = resp[a].hash


(* ------------------------------ C18 ------------------------------------ *)
\* C18: a status lookup that runs while an attempt writes its artifact
\* sees no file or the complete bytes: when it answers 200, the size it
\* reports is the size of the whole upload of the attempt that owns the
\* batch id.

C18_ReaderSeesWholeArtifact ==
  (statusReply.status = 200)
    => \E a \in Attempts :
         /\ batchId[a] = statusReply.batchId
         /\ statusReply.size = byteLength(upload[a].bytes)

(* ------------------------------ C19 ------------------------------------ *)
\* C19: no two attempts are given the same batchId or storage path, every
\* stored file is at /app/data/processed/<batchId>.csv of one attempt and a
\* success response names that path, and once copyFileSync has returned for
\* an artifact no later step of any upload changes or removes its bytes.

C19_BatchIdUniqueArtifactImmutable ==
  /\ [](/\ \A a, b \in Attempts :
             (a # b /\ batchId[a] # 0 /\ batchId[b] # 0)
               => (/\ batchId[a] # batchId[b]
                   /\ finalFilePath(batchId[a]) # finalFilePath(batchId[b]))
        /\ \A p \in DOMAIN processed :
             \E a \in Attempts : batchId[a] # 0 /\ p = finalFilePath(batchId[a])
        /\ \A a \in Attempts :
             Out(a) = "STORED"
               => (/\ resp[a].batchId = batchId[a]
                   /\ resp[a].filePath = finalFilePath(batchId[a])
                   /\ Stored(a)))
  /\ [][\A a \in Attempts :
          (pc[a] \in {"stored", "done"} /\ Stored(a))
            => (/\ finalFilePath(batchId[a]) \in DOMAIN processed'
                /\ processed'[finalFilePath(batchId[a])] = upload[a].bytes)]_vars

\* two attempts are over, each with its own artifact in place
C19_Witness ==
  \E a, b \in Attempts :
    /\ a # b
    /\ Done(a) /\ Done(b)
    /\ Stored(a) /\ Stored(b)
    /\ batchId[a] # batchId[b]

(* ------------------------------ C20 ------------------------------------ *)

\* C20 as stated: the first upload of well-formed bytes holding n records
\* is answered with success, a batchId no earlier upload was given,
\* recordCount n and the digest of the bytes; every later upload of the
\* same bytes is answered 400 'Duplicate file detected' with that digest.
C20_FirstStoredLaterDuplicate ==
  \A a \in Attempts :
    (Done(a) /\ a \in AttemptsOn(upload[a].bytes) /\ WellFormed(upload[a].bytes))
      => IF \A b \in 1..(a - 1) : b \notin AttemptsOn(upload[a].bytes)
           THEN /\ Out(a) = "STORED"
                /\ \A b \in 1..(a - 1) : resp[b].batchId # resp[a].batchId
                /\ resp[a].recordCount = Len(PapaParse(upload[a].bytes).data)
                /\ resp[a].hash = sha256hex(upload[a].bytes)
           ELSE /\ Out(a) = "DUPLICATE"
                /\ resp[a].hash = sha256hex(upload[a].bytes)

\* C20 amended: an upload of well-formed bytes holding n records that wins
\* the claim and meets no failure of temp-file read or storage is answered
\* with success, a batchId no other upload was given, recordCount n and
\* the digest of the bytes; every upload of the same bytes that arrives
\* after that success is answered 400 'Duplicate file detected' with that
\* digest, or 500 when its own hash read or ledger call fails.
C20_WinnerStoredLaterDuplicate ==
  \A a \in Attempts :
    (Done(a) /\ a \in AttemptsOn(upload[a].bytes) /\ WellFormed(upload[a].bytes))
      => /\ (isNotDuplicate[a] = "true" /\ fault[a] \in {"none", "publish"})
              => (/\ Out(a) = "STORED"
                  /\ resp[a].batchId # 0
                  /\ \A b \in Attempts \ {a} : resp[b].batchId # resp[a].batchId
                  /\ resp[a].recordCount = Len(PapaParse(upload[a].bytes).data)
                  /\ resp[a].hash = sha256hex(upload[a].bytes))
         /\ ("STORED" \in prior[a])
              => (\/ EarlyError(a)
                  \/ /\ Out(a) = "DUPLICATE"
                     /\ resp[a].hash = sha256hex(upload[a].bytes)
                     /\ \E b \in 1..(a - 1) :
                          /\ upload[b].bytes = upload[a].bytes
                          /\ Out(b) = "STORED"
                          /\ resp[b].hash = resp[a].hash)

\* a two-record upload was answered with success and a later upload of the
\* same bytes with the duplicate error and the same digest
C20_Witness ==
  \E a, b \in Attempts :
    /\ a < b
    /\ upload[a].bytes = FileGood2 /\ upload[b].bytes = FileGood2
    /\ Done(a) /\ Out(a) = "STORED" /\ resp[a].recordCount = 2
    /\ "STORED" \in prior[b]
    /\ Done(b) /\ Out(b) = "DUPLICATE"
    /\ resp[b].hash = resp[a].hash


(* ------------------------------ C21 ------------------------------------ *)

\* the bytes parse without error and the record set fails the schema for
\* want of a required column or of any record
SchemaFails(bytes) ==
  LET results == PapaParse(bytes)
  IN  /\ results.errors = {}
      /\ \/ Len(results.data) = 0
         \/ \E f \in {requiredFields[k] : k \in 1..Len(requiredFields)} :
              f \notin DOMAIN results.data[1]

Refused(a) == part[a] # NoPart

\* the part is neither of type text/csv nor named *.csv
NonCsv(file) ==
  file.mimetype # "text/csv" /\ ~endsWith(file.originalname, ".csv")

\* C22: an upload whose file part is neither of content type text/csv nor
\* named with a .csv suffix is answered 400 with the error 'Only CSV files
\* are allowed'.
C22_NonCsvIsRejected400 ==
  \A a \in Attempts :
    (Done(a) /\ Refused(a) /\ NonCsv(part[a]))
      => (resp[a].status = 400 /\ resp[a].error = "Only CSV files are allowed")

(* ------------------------------ C23 ------------------------------------ *)
\* C23: an upload refused by a pre-check, for its size or for not being
\* CSV, is refused before hashing: no hash is computed, no claim taken, no
\* batchId generated, no artifact written and no notification published by
\* it; a part refused for its size is answered 400 'File too large'.

C23_RefusedBeforeHashing ==
  /\ [](\A a \in Attempts :
          Refused(a)
            => (/\ Done(a)
                /\ Out(a) = "REJECTED"
                /\ upload[a] = NoFile
                /\ fileHash[a] = ""
                /\ isNotDuplicate[a] = "none"
                /\ batchId[a] = 0
                /\ a \notin tmp
                /\ (part[a].size > fileSize)
                     => (/\ resp[a].status = 400
                         /\ resp[a].error = "File too large. Maximum size is 10MB.")))
  /\ [][\A a \in Attempts :
          (Refused(a)' /\ ~Refused(a))
            => (ledger' = ledger /\ processed' = processed /\ events' = events)]_vars

\* a part was refused for its size after another upload had been stored:
\* the ledger, the processed directory and the channel are not empty
C23_Witness ==
  \E a, b \in Attempts :
    /\ a < b
    /\ Done(a) /\ Out(a) = "STORED"
    /\ ledger # {} /\ events # <<>>
    /\ Refused(b) /\ part[b].size > fileSize /\ resp[b].status = 400


(* ---------------------- vocabulary: validator -------------------------- *)

\* the value of a field of a record, the empty string when it has none
ValueOf(row, field) == IF field \in DOMAIN row THEN row[field] ELSE ""

\* the value is missing, empty or white space only
Blank(v) == v \in {"", " ", "  "}

\* the whole string is the decimal notation of a number
IsNumber(s) == s \in {"100.50", "250", "0", "-5"}

\* the keys of the first record include the six required fields
CompleteHeader(records) ==
  /\ Len(records) > 0
  /\ \A k \in 1..Len(requiredFields) : requiredFields[k] \in DOMAIN records[1]

\* the rules in the order of the claim: 1..6 the required fields in schema
\* order, 7 the amount, 8 the paymentMethod
Rules == 1..(Len(requiredFields) + 2)

RuleName(k) ==
  IF k <= Len(requiredFields) THEN "required"
  ELSE IF k = Len(requiredFields) + 1 THEN "amount" ELSE "paymentMethod"

RuleField(k) ==
  IF k <= Len(requiredFields) THEN requiredFields[k]
  ELSE IF k = Len(requiredFields) + 1 THEN "amount" ELSE "paymentMethod"

\* the rules a record violates, the amount rule as the specification words
\* it: the amount is a number and is strictly positive
RulesViolated(row) ==
  {k \in Rules :
     IF k <= Len(requiredFields)
       THEN Blank(ValueOf(row, requiredFields[k]))
     ELSE IF k = Len(requiredFields) + 1
       THEN \/ ~IsNumber(ValueOf(row, "amount"))
            \/ parseFloat(ValueOf(row, "amount")).val <= 0
     ELSE ValueOf(row, "paymentMethod") \notin {"RTGS", "NEFT", "IMPS", "UPI"}}

\* the rules a record violates, the amount rule as the code tests it:
\* parseFloat of the amount is NaN or not above zero
RulesDetected(row) ==
  {k \in Rules :
     IF k <= Len(requiredFields)
       THEN Blank(ValueOf(row, requiredFields[k]))
     ELSE IF k = Len(requiredFields) + 1
       THEN \/ parseFloat(ValueOf(row, "amount")).nan
            \/ parseFloat(ValueOf(row, "amount")).val <= 0
     ELSE ValueOf(row, "paymentMethod") \notin {"RTGS", "NEFT", "IMPS", "UPI"}}

\* the least element of a non-empty set of numbers
Least(S) == CHOOSE i \in S : \A j \in S : i <= j

(* ------------------------------ C24 ------------------------------------ *)
\* C24: for a record set with a complete header and at least one violating
\* record, the report names the smallest violating row and, within it, the
\* first rule violated in the order required fields (schema order), amount,
\* paymentMethod; a call with the same record set returns the same report.

C24_FirstViolationReported ==
  /\ [](LET bad == {i \in 1..Len(data) : RulesViolated(data[i]) # {}}
        IN  (CompleteHeader(data) /\ bad # {})
              => (/\ ~report.valid
                  /\ report.row = Least(bad)
                  /\ report.rule = RuleName(Least(RulesViolated(data[Least(bad)])))
                  /\ report.field = RuleField(Least(RulesViolated(data[Least(bad)])))))
  /\ [][(report # NoReport /\ data' = data) => report' = report]_vars

(* ------------------------------ C25 ------------------------------------ *)
\* C25: when the keys of the first record of a non-empty record set lack
\* required fields, the report is invalid and lists every missing field,
\* whatever the records hold: no per-record check is made first.

C25_AllMissingFieldsListed ==
  (Len(data) > 0 /\ ~CompleteHeader(data))
    => (/\ ~report.valid
        /\ report.rule = "missing"
        /\ report.row = 0
        /\ {report.fields[i] : i \in 1..Len(report.fields)} =
             {requiredFields[k] : k \in 1..Len(requiredFields)} \ DOMAIN data[1]
        /\ Len(report.fields) =
             Cardinality({requiredFields[k] : k \in 1..Len(requiredFields)} \ DOMAIN data[1]))

\* the first record lacks two required fields and the second has an amount
\* of zero; both missing fields are listed
C25_Witness ==
  /\ Len(data) = 2
  /\ data[1] = ShortRecord
  /\ data[2] = Row("T1", "0", "RTGS", "2024-01-01")
  /\ report.fields = <<"paymentMethod", "timestamp">>

(* ------------------------------ C26 ------------------------------------ *)

\* the rows with a missing or blank required field
BlankRows(records) ==
  {i \in 1..Len(records) :
     \E k \in 1..Len(requiredFields) : Blank(ValueOf(records[i], requiredFields[k]))}

\* C26 as stated: with a complete header, when some record has a required
\* field missing or blank, the report is invalid and identifies the row and
\* the field of such a record.
C26_BlankFieldIdentified ==
  (CompleteHeader(data) /\ BlankRows(data) # {})
    => (/\ ~report.valid
        /\ report.rule = "required"
        /\ report.row \in BlankRows(data)
        /\ Blank(ValueOf(data[report.row], report.field)))

\* C26 amended: the report is invalid; when no record before the first one
\* with a blank required field fails the amount or paymentMethod check of
\* the code, the report identifies that record's 1-based row and its first
\* blank required field in schema order; otherwise it identifies the
\* earlier record.
C26_FirstBlankFieldIdentified ==
  (CompleteHeader(data) /\ BlankRows(data) # {})
    => LET r == Least(BlankRows(data))
           earlier == {i \in 1..(r - 1) : RulesDetected(data[i]) # {}}
           blanks == {k \in 1..Len(requiredFields) :
                        Blank(ValueOf(data[r], requiredFields[k]))}
       IN  /\ ~report.valid
           /\ (earlier = {})
                => (/\ report.rule = "required"
                    /\ report.row = r
                    /\ report.field = requiredFields[Least(blanks)])
           /\ (earlier # {}) => (report.row = Least(earlier))

\* row 2 has a blank paymentMethod and is reported as row 2, field
\* paymentMethod
C26_Witness ==
  /\ Len(data) = 2
  /\ data[1] = Row("T1", "100.50", "RTGS", "2024-01-01")
  /\ data[2] = Row("T1", "250", "", "2024-01-01")
  /\ report.rule = "required" /\ report.row = 2 /\ report.field = "paymentMethod"

(* ------------------------------ C27 ------------------------------------ *)
\* C27: the report is valid only if the amount of every record is a number
\* and is strictly positive.

C27_ValidOnlyIfAmountsPositive ==
  (Len(data) > 0 /\ report.valid)
    => \A i \in 1..Len(data) :
         /\ IsNumber(ValueOf(data[i], "amount"))
         /\ parseFloat(ValueOf(data[i], "amount")).val > 0

(* ------------------------------ C28 ------------------------------------ *)

\* the rows whose paymentMethod is not one of RTGS, NEFT, IMPS, UPI
OffRailRows(records) ==
  {i \in 1..Len(records) :
     ValueOf(records[i], "paymentMethod") \notin {"RTGS", "NEFT", "IMPS", "UPI"}}

\* C28 as stated: the report is valid only if every paymentMethod is one of
\* the four; a record with another value makes the record set invalid,
\* reported with the row number of such a record.
C28_OffRailRowReported ==
  /\ (Len(data) > 0 /\ report.valid) => OffRailRows(data) = {}
  /\ (CompleteHeader(data) /\ OffRailRows(data) # {})
       => (~report.valid /\ report.row \in OffRailRows(data))

\* C28 amended: the report is valid only if every paymentMethod is one of
\* the four; a record with another value makes the record set invalid, and
\* the report carries the row number of the first record that fails any
\* check of the code, which is that record's when no earlier record fails.
C28_FirstFailingRowReported ==
  /\ (Len(data) > 0 /\ report.valid) => OffRailRows(data) = {}
  /\ (CompleteHeader(data) /\ OffRailRows(data) # {})
       => LET r == Least(OffRailRows(data))
              earlier == {i \in 1..(r - 1) : RulesDetected(data[i]) # {}}
          IN  /\ ~report.valid
              /\ report.row = (IF earlier = {} THEN r ELSE Least(earlier))
              /\ (earlier = {} /\ RulesDetected(data[r]) = {Len(requiredFields) + 2})
                   => (report.rule = "paymentMethod" /\ report.field = "paymentMethod")

\* a record with paymentMethod CASH in row 2 is reported with row 2
C28_Witness ==
  /\ Len(data) = 2
  /\ data[1] = Row("T1", "100.50", "RTGS", "2024-01-01")
  /\ data[2] = Row("T1", "250", "CASH", "2024-01-01")
  /\ report.rule = "paymentMethod" /\ report.row = 2


(* ------------------------------ C29 ------------------------------------ *)
\* C29: the status lookup reflects commits. For every batchId returned by
\* a successful upload, a lookup of it answers 200 with status 'processed',
\* the path of the artifact and the size of the upload; and a lookup that
\* has answered 200 did not name a batchId that no successful upload
\* returns (such a lookup is answered 404 'Batch not found').

C29_StatusReflectsCommits ==
  /\ \A a \in Attempts :
       (Done(a) /\ Out(a) = "STORED")
         => LET answer == BatchStatusHandler(processed, resp[a].batchId)
            IN  /\ answer.status = 200
                /\ answer.batchId = resp[a].batchId
                /\ answer.filePath = resp[a].filePath
                /\ answer.size = byteLength(upload[a].bytes)
  /\ \A id \in BatchIds :
       (\A a \in Attempts :
          pc[a] = "idle" \/ (Done(a) /\ ~(Out(a) = "STORED" /\ resp[a].batchId = id)))
         => (/\ BatchStatusHandler(processed, id).status = 404
             /\ BatchStatusHandler(processed, id).error = "Batch not found"
             /\ (statusReply.batchId = id => statusReply.status # 200))


(* ------------------------------ C30 ------------------------------------ *)
\* C30: uploads of different content never contend. When two attempts on
\* well-formed files of different bytes, each the only attempt on its
\* bytes, are over and neither met an infrastructure failure, their
\* digests and ledger keys differ, both are STORED, and each has the
\* outcome it would have alone: its response carries its own digest,
\* record count, batchId and path, its artifact holds its own bytes, its
\* claim is in the ledger and one message carries its batchId and path.

C30_DifferentContentNoContention ==
  \A a, b \in Attempts :
    ( /\ a # b /\ Done(a) /\ Done(b)
      /\ upload[a] # NoFile /\ upload[b] # NoFile
      /\ upload[a].bytes # upload[b].bytes
      /\ AttemptsOn(upload[a].bytes) = {a} /\ AttemptsOn(upload[b].bytes) = {b}
      /\ fault[a] = "none" /\ fault[b] = "none"
      /\ WellFormed(upload[a].bytes) /\ WellFormed(upload[b].bytes) )
    => ( /\ fileHash[a] # fileHash[b]
         /\ LedgerKey(fileHash[a]) # LedgerKey(fileHash[b])
         /\ batchId[a] # batchId[b]
         /\ \A c \in {a, b} :
              /\ Out(c) = "STORED"
              /\ resp[c].status = 200
              /\ resp[c].hash = sha256hex(upload[c].bytes)
              /\ resp[c].recordCount = recordCount(PapaParse(upload[c].bytes))
              /\ resp[c].batchId = batchId[c]
              /\ resp[c].filePath = finalFilePath(batchId[c])
              /\ Stored(c)
              /\ LedgerKey(fileHash[c]) \in ledger
              /\ Cardinality(EventsOf(batchId[c])) = 1
              /\ \A i \in EventsOf(batchId[c]) :
                   events[i].filePath = finalFilePath(batchId[c]) )

\* two uploads of different well-formed files ran interleaved, the one that
\* arrived second being given its batchId first, and both are stored
C30_Witness ==
  \E a, b \in Attempts :
    /\ a # b /\ Done(a) /\ Done(b)
    /\ upload[a] # NoFile /\ upload[b] # NoFile
    /\ upload[a].bytes # upload[b].bytes
    /\ WellFormed(upload[a].bytes) /\ WellFormed(upload[b].bytes)
    /\ fault[a] = "none" /\ fault[b] = "none"
    /\ Out(a) = "STORED" /\ Out(b) = "STORED"
    /\ Stored(a) /\ Stored(b)
    /\ a < b /\ batchId[b] < batchId[a]


(* ------------------------------ C31 ------------------------------------ *)

\* variant: the handler does not go on after the copy has returned
HandlerStepUntilCopy(a) ==
  \/ Hash(a)
  \/ Claim(a)
  \/ Validate(a)
  \/ CopyStart(a)
  \/ CopyEnd(a)

\* the steps of the route handler of one attempt after it has the file:
\* each is a synchronous call or an awaited call that returns or fails
HandlerStep(a) ==
  \/ Hash(a)
  \/ Claim(a)
  \/ Validate(a)
  \/ CopyStart(a)
  \/ CopyEnd(a)
  \/ Publish(a)

\* the requests that reach the route handler and the steps of the handler
NextHandler ==
  \E a \in Attempts :
    \/ Upload(a)
    \/ UploadNoFile(a)
    \/ HandlerStep(a)

\* the handler of every attempt is run on by the event loop: a continuation
\* that can run is not postponed for ever
SpecLive ==
  Init /\ [][NextHandler]_vars /\ \A a \in Attempts : WF_vars(HandlerStep(a))

\* the attempt is in the route handler with its file and has not answered
InHandler(a) == pc[a] \in {"received", "hashed", "claimed", "validated", "copying", "stored"}

\* C31: no upload attempt stays for ever in a non-terminal state of the
\* handler, when every ledger, file and publish call returns or fails, and
\* an attempt leaves those states only by ending the handler; it has then
\* sent one response, whose outcome is STORED, DUPLICATE, INVALID or ERROR;
\* the response is sent in the step that ends the handler and is never
\* replaced.
C31_EveryAttemptTerminatesOnce ==
  /\ \A a \in Attempts : []<>(~InHandler(a))
  /\ [][\A a \in Attempts : (InHandler(a) /\ ~InHandler(a)') => Done(a)']_vars
  /\ [](\A a \in Attempts :
          /\ InHandler(a) => resp[a] = NoResp
          /\ (Done(a) /\ upload[a] # NoFile)
               => Out(a) \in {"STORED", "DUPLICATE", "INVALID", "ERROR"})
  /\ [][\A a \in Attempts :
          resp'[a] # resp[a]
            => (resp[a] = NoResp /\ ~Done(a) /\ pc'[a] = "done")]_vars

\* every attempt carried a file and is over, one of them stored or invalid
\* and another one duplicate or failed
C31_Witness ==
  /\ \A a \in Attempts : Done(a) /\ upload[a] # NoFile
  /\ \E a \in Attempts : Out(a) \in {"DUPLICATE", "ERROR"}
  /\ \E a \in Attempts : Out(a) \in {"STORED", "INVALID"}


(* ------------------------------ C35 ------------------------------------ *)

\* the attempt went through the handler in order up to the batchId: digest
\* of its bytes, claim won for that digest, bytes parsed and validated
InOrder(a) ==
  /\ fileHash[a] = sha256hex(upload[a].bytes)
  /\ isNotDuplicate[a] = "true"
  /\ LedgerKey(fileHash[a]) \in ledger
  /\ WellFormed(upload[a].bytes)

\* every file of the processed directory and every message on the channel
\* belongs to an attempt that has a batchId, and an attempt has a batchId
\* only after it went through the handler in order
ArtifactsInOrder ==
  /\ \A a \in Attempts : batchId[a] # 0 => InOrder(a)
  /\ \A p \in DOMAIN processed :
       \E a \in Attempts :
         /\ batchId[a] # 0
         /\ p = finalFilePath(batchId[a])
         /\ processed[p] \in {<<>>, upload[a].bytes}
  /\ \A i \in 1..Len(events) :
       \E a \in Attempts :
         /\ batchId[a] # 0
         /\ events[i].batchId = batchId[a]
         /\ Stored(a)

\* C35 as stated: every artifact of the processed directory was written by
\* an attempt that had won the claim for its digest and then passed parsing
\* and validation, and an attempt that ends DUPLICATE, INVALID or ERROR has
\* no batchId, no file in the directory and no message on the channel.
C35_FailedAttemptHasNoBatchId ==
  /\ ArtifactsInOrder
  /\ \A a \in Attempts :
       (Done(a) /\ Out(a) \in {"DUPLICATE", "INVALID", "ERROR"})
         => batchId[a] = 0

\* C35 amended: every artifact of the processed directory and every
\* message belongs to an attempt that had won the claim for its digest and
\* then passed parsing and validation; an attempt that ends DUPLICATE,
\* INVALID or ERROR before validation has passed (hash, ledger or read
\* failure) has no batchId, hence no file and no message; an attempt whose
\* storage write fails has been given a batchId, which it never returns,
\* and it leaves no file in the directory and no message on the channel.
C35_FailedAttemptLeavesNothing ==
  /\ ArtifactsInOrder
  /\ \A a \in Attempts :
       (Done(a) /\ Out(a) \in {"DUPLICATE", "INVALID", "ERROR"})
         => (/\ resp[a].batchId = 0
             /\ fault[a] # "storage" => batchId[a] = 0
             /\ fault[a] = "storage" =>
                  (/\ batchId[a] # 0
                   /\ finalFilePath(batchId[a]) \notin DOMAIN processed
                   /\ EventsOf(batchId[a]) = {}))

\* one attempt failed while copying, after it had created the file, and
\* another attempt is stored
C35_Witness ==
  \E a, b \in Attempts :
    /\ Done(a) /\ Out(a) = "ERROR" /\ fault[a] = "storage"
    /\ batchId[a] # 0
    /\ Done(b) /\ Out(b) = "STORED" /\ Stored(b)
    /\ batchId[b] > batchId[a]

(* ------------------------------ C36 ------------------------------------ *)
\* C36: once an upload attempt that entered the handler with a file has
\* sent its response, whatever the outcome, its temp file under /tmp is
\* gone; while the attempt is in the handler its temp file exists, and a
\* temp file is removed only by the step that ends its own attempt.

C36_TempFileRemovedByOwnerOnly ==
  /\ [](\A a \in Attempts :
          /\ (Done(a) \/ resp[a] # NoResp) => a \notin tmp
          /\ InHandler(a) => a \in tmp)
  /\ [][\A a \in Attempts :
          (a \in tmp /\ a \notin tmp')
            => (InHandler(a) /\ Done(a)' /\ resp'[a] # NoResp
                /\ \A b \in Attempts \ {a} : (b \in tmp) <=> (b \in tmp'))]_vars

\* an attempt with a file has failed and its temp file is gone while
\* another attempt is in the handler and its temp file is there
C36_Witness ==
  \E a, b \in Attempts :
    /\ Done(a) /\ upload[a] # NoFile /\ Out(a) = "ERROR"
    /\ a \notin tmp
    /\ InHandler(b) /\ b \in tmp

(* ------------------------------ C37 ------------------------------------ *)
\* C37: dispatch is first-match in registration order. GET /files, GET
\* /health and GET /metrics are answered by their own handlers and never by
\* the file-download handler, also when a file of that name exists in the
\* storage root, and GET /<name>/metadata is answered by the metadata
\* handler for that name, also for <name> = 'search'.

C37_FixedRoutesFirst ==
  LET s == pathSegments(request)
  IN  /\ s = <<<<"f", "i", "l", "e", "s">>>> => reply.handler = "files"
      /\ s = <<<<"h", "e", "a", "l", "t", "h">>>> => reply.handler = "health"
      /\ s = <<<<"m", "e", "t", "r", "i", "c", "s">>>> => reply.handler = "metrics"
      /\ (Len(s) = 2 /\ s[1] # <<>> /\ s[2] = <<"m", "e", "t", "a", "d", "a", "t", "a">>)
           => (reply.handler = "metadata" /\ reply.filename = s[1])

\* GET /files was answered with the list while a file named 'files' was in
\* the storage root, and the list names that file
C37_Witness ==
  /\ pathSegments(request) = <<<<"f", "i", "l", "e", "s">>>>
  /\ existsSync(observed, pathJoin(EVIDENCE_DIR, <<"f", "i", "l", "e", "s">>))
  /\ existsSync(observed, pathJoin(EVIDENCE_DIR, <<"s", "e", "a", "r", "c", "h">>))
  /\ reply.handler = "files"
  /\ \E f \in reply.files : f.filename = <<"f", "i", "l", "e", "s">>

(* ------------------------------ C38 ------------------------------------ *)

\* the names of a path lead to a file directly inside the directory, once
\* the '.' and '..' among them are resolved
DirectlyInside(dir, names) ==
  LET resolved == resolveSegments(names, <<>>)
  IN  /\ resolved # <<>>
      /\ SubSeq(resolved, 1, Len(resolved) - 1) = namesOf(dir)

\* C38: for every batchId text, also with '../' segments, the batch status
\* lookup answers 200 'processed', with a size, only for a file directly
\* inside /app/data/processed; it never reports a file outside it.
C38_StatusOnlyInsideProcessed ==
  statusReply.status = 200
    => DirectlyInside(<<"/", "a", "p", "p", "/", "d", "a", "t", "a", "/", "p", "r", "o", "c", "e", "s", "s", "e", "d">>,
                      filePathNames(statusReply.batchId))

(* ------------------------ simulator vocabulary ------------------------- *)

\* a request has been simulated
Simulated == simulated.rail # ""

\* the properties an endpoint requires of the transaction
RequiredOf(rail) ==
  IF rail = "UPI" THEN {"amount", "upiId"}
  ELSE {"amount", "fromAccount", "toAccount"}

\* the request has no transaction or its transaction lacks a required property
Lacking ==
  \/ ~simulated.given
  \/ \E p \in RequiredOf(simulated.rail) : p \notin DOMAIN simulated.transaction

\* the request has a transaction with every required property, none of
\* them 0 or empty
Complete ==
  /\ simulated.given
  /\ \A p \in RequiredOf(simulated.rail) : p \in DOMAIN simulated.transaction
  /\ simulated.transaction.amount # 0
  /\ \A p \in RequiredOf(simulated.rail) \ {"amount"} : simulated.transaction[p] # ""

(* ------------------------------ C32 ------------------------------------ *)
\* C32: a request to /simulate/rtgs, /simulate/neft or /simulate/imps
\* without a transaction, amount, fromAccount or toAccount, and a request to
\* /simulate/upi without a transaction, amount or upiId, is answered 400
\* with an error containing 'Invalid transaction data' and with no
\* statement item.

C32_IncompleteInputRejected ==
  (Simulated /\ Lacking)
    => (/\ statement.status = 400
        /\ includes(statement.error, <<"I", "n", "v", "a", "l", "i", "d", " ", "t", "r", "a", "n", "s", "a", "c", "t", "i", "o", "n", " ", "d", "a", "t", "a">>)
        /\ statement.item = NoItem)

\* a UPI request with an amount and both accounts but no upiId was refused
C32_Witness ==
  /\ simulated.rail = "UPI"
  /\ simulated.given
  /\ DOMAIN simulated.transaction = {"amount", "fromAccount", "toAccount"}
  /\ simulated.transaction.amount > 0
  /\ simulated.transaction.fromAccount # ""
  /\ statement.status = 400

(* ------------------------------ C33 ------------------------------------ *)
\* C33: for every simulate request with complete transaction data the
\* response is 200 with a statement item whose status is FAILED exactly
\* when outcome is 'failure', then carrying the requested failureCode
\* (TECHNICAL_ERROR when none is requested), processingFee 0 and netAmount
\* 0, and SUCCESS otherwise; in both cases its paymentMethod is the rail of
\* the endpoint, whatever paymentMethod the body carried.

C33_StatusFollowsOutcomeRailFollowsEndpoint ==
  (Simulated /\ Complete)
    => (/\ statement.status = 200
        /\ statement.item.status \in {"FAILED", "SUCCESS"}
        /\ (statement.item.status = "FAILED") <=> (simulated.outcome = "failure")
        /\ (statement.item.status = "FAILED")
             => (/\ statement.item.failureCode =
                      (IF simulated.failureCode \in {Undefined, ""}
                         THEN "TECHNICAL_ERROR" ELSE simulated.failureCode)
                 /\ statement.item.processingFee = 0
                 /\ statement.item.netAmount = 0)
        /\ statement.item.paymentMethod = simulated.rail
        /\ statement.item.amount = simulated.transaction.amount)

\* a request to /simulate/rtgs whose body carried paymentMethod CASH and
\* outcome failure with a code was answered with a FAILED item
C33_Witness ==
  /\ simulated.rail = "RTGS"
  /\ Complete
  /\ Has(simulated.transaction, "paymentMethod")
  /\ simulated.transaction.paymentMethod = "CASH"
  /\ simulated.outcome = "failure"
  /\ simulated.failureCode = "INSUFFICIENT_FUNDS"
  /\ statement.item.status = "FAILED"
  /\ statement.item.failureCode = "INSUFFICIENT_FUNDS"

(* ------------------------------ C34 ------------------------------------ *)
\* C34: for every successful simulated transaction with a positive amount,
\* netAmount = amount - processingFee, where processingFee is 0 for UPI and
\* strictly positive for RTGS, NEFT and IMPS, at least the rail minimum of
\* 25, 2.5 and 5 rupees; an RTGS amount of 100000 rupees gives fee 25 and
\* netAmount 99975.

C34_NetAmountIsAmountLessFee ==
  (Simulated /\ statement.status = 200 /\ statement.item.status = "SUCCESS"
     /\ statement.item.amount > 0)
    => (/\ statement.item.netAmount =
              statement.item.amount - statement.item.processingFee
        /\ (simulated.rail = "UPI") => (statement.item.processingFee = 0)
        /\ (simulated.rail = "RTGS") => (statement.item.processingFee >= 2500)
        /\ (simulated.rail = "NEFT") => (statement.item.processingFee >= 250)
        /\ (simulated.rail = "IMPS") => (statement.item.processingFee >= 500)
        /\ (simulated.rail # "UPI") => (statement.item.processingFee > 0)
        /\ (simulated.rail = "RTGS" /\ statement.item.amount = 10000000)
             => (/\ statement.item.processingFee = 2500
                 /\ statement.item.netAmount = 9997500))

\* an RTGS transaction of 100000 rupees succeeded with fee 25 and net 99975
C34_Witness ==
  /\ simulated.rail = "RTGS"
  /\ statement.status = 200
  /\ statement.item.status = "SUCCESS"
  /\ statement.item.amount = 10000000
  /\ statement.item.processingFee = 2500
  /\ statement.item.netAmount = 9997500

====
